---------------------------- MODULE Spec2Model ----------------------------
(***************************************************************************)
(* A model of the LeetCode solver scripts: the reply decoders of the two   *)
(* vision solvers (gemini_leetcode_solver.py, leetcode_vision_solver.py),  *)
(* their save_solution / open_in_vscode steps and main(), the OutputHandler *)
(* of the OCR pipeline (src/output_handler.py), the region heuristic       *)
(* (src/image_processor.py), the text parser (src/problem_parser.py), the  *)
(* reply filter of generate_solution (src/code_generator.py), the camera   *)
(* capture (capture_from_camera, src/camera_stream.py), main() of the OCR  *)
(* pipeline (src/main.py) and the camera-selection utility                 *)
(* (select_back_camera.py).                                                *)
(*                                                                         *)
(* Text is a sequence of tokens.  A token is one character ("{", "x", a    *)
(* space, a newline, a double quote, a backslash ...) or one of the words  *)
(* the code looks for, kept whole: the fence marker, "json",               *)
(* "python", and the four key names of a result.  Substring tests, split,  *)
(* find, strip and json.loads / json.dump are computed on these sequences  *)
(* the way Python computes them on characters.                             *)
(***************************************************************************)
EXTENDS Integers, Sequences, FiniteSets, TLC

(***************************************************************************)
(* Tokens                                                                  *)
(***************************************************************************)
\* the fence marker: three backquotes, kept as one token
FENCE == "fence"
QUOTE == "\""
BSLASH == "\\"
NL == "\n"
SP == " "
Whitespace == {SP, NL}

F == <<FENCE>>
FJ == <<FENCE, "json">>
FP == <<FENCE, "python">>

(***************************************************************************)
(* Python str operations on token sequences                                *)
(***************************************************************************)
IsAt(s, pat, i) ==
    /\ i >= 1
    /\ i + Len(pat) - 1 <= Len(s)
    /\ \A k \in 1..Len(pat) : s[i + k - 1] = pat[k]

\* str.find: the 0-based index of the first occurrence, -1 when there is none
PyFind(s, pat) ==
    LET hits == {i \in 1..Len(s) : IsAt(s, pat, i)}
    IN  IF hits = {} THEN -1
        ELSE (CHOOSE i \in hits : \A j \in hits : i <= j) - 1

\* str.rfind: the 0-based index of the last occurrence, -1 when there is none
PyRFind(s, pat) ==
    LET hits == {i \in 1..Len(s) : IsAt(s, pat, i)}
    IN  IF hits = {} THEN -1
        ELSE (CHOOSE i \in hits : \A j \in hits : i >= j) - 1

\* the test  pat in s
Contains(s, pat) == PyFind(s, pat) # -1

\* the slice s[a:b] for 0 <= a, 0 <= b
PySlice(s, a, b) == SubSeq(s, a + 1, IF b > Len(s) THEN Len(s) ELSE b)

RECURSIVE Split(_, _)
\* str.split(sep): the pieces between the non-overlapping occurrences of sep
Split(s, sep) ==
    LET i == PyFind(s, sep)
    IN  IF i = -1 THEN <<s>>
        ELSE <<SubSeq(s, 1, i)>> \o Split(SubSeq(s, i + Len(sep) + 1, Len(s)), sep)

RECURSIVE LStrip(_)
LStrip(s) == IF s # <<>> /\ Head(s) \in Whitespace THEN LStrip(Tail(s)) ELSE s

RECURSIVE RStrip(_)
RStrip(s) ==
    IF s # <<>> /\ s[Len(s)] \in Whitespace THEN RStrip(SubSeq(s, 1, Len(s) - 1)) ELSE s

\* str.strip()
Strip(s) == RStrip(LStrip(s))

StartsWith(s, c) == s # <<>> /\ s[1] = c
EndsWith(s, c) == s # <<>> /\ s[Len(s)] = c

(***************************************************************************)
(* Python values: text, integers, lists and dicts (insertion ordered)      *)
(***************************************************************************)
PyStr(cs) == [t |-> "str", v |-> cs]
PyInt(ds) == [t |-> "int", v |-> ds]
PyList(vs) == [t |-> "list", v |-> vs]
PyDict(pairs) == [t |-> "dict", v |-> pairs]
PyNone == [t |-> "none", v |-> <<>>]

IsDict(x) == x.t = "dict"
IsStr(x) == x.t = "str"

HasKey(d, key) == \E i \in 1..Len(d.v) : d.v[i][1] = key

\* dict.get(key, default)
DictGet(d, key, default) ==
    IF HasKey(d, key)
    THEN d.v[CHOOSE i \in 1..Len(d.v) : d.v[i][1] = key][2]
    ELSE default

\* d[key] = val on the list of pairs: a repeated key keeps its place
DictPut(pairs, key, val) ==
    IF \E i \in 1..Len(pairs) : pairs[i][1] = key
    THEN [i \in 1..Len(pairs) |-> IF pairs[i][1] = key THEN <<key, val>> ELSE pairs[i]]
    ELSE Append(pairs, <<key, val>>)

(***************************************************************************)
(* json.loads on a token sequence (the strict decoder of the standard      *)
(* library): objects, arrays, strings with the escapes \" \\ \n, integers. *)
(* A scan returns [ok, val, pos]: pos is the 1-based index after the value. *)
(***************************************************************************)
Fail == [ok |-> FALSE, val |-> PyNone, pos |-> 0]
Ok(val, pos) == [ok |-> TRUE, val |-> val, pos |-> pos]

Digits == {"1"}

RECURSIVE SkipWs(_, _)
SkipWs(s, i) == IF i <= Len(s) /\ s[i] \in Whitespace THEN SkipWs(s, i + 1) ELSE i

RECURSIVE ScanChars(_, _, _)
\* the characters of a string literal, from index j to its closing quote
ScanChars(s, j, acc) ==
    IF j > Len(s) THEN Fail
    ELSE IF s[j] = QUOTE THEN Ok(PyStr(acc), j + 1)
    ELSE IF s[j] = BSLASH THEN
        IF j + 1 > Len(s) THEN Fail
        ELSE IF s[j + 1] \in {QUOTE, BSLASH} THEN ScanChars(s, j + 2, Append(acc, s[j + 1]))
        ELSE IF s[j + 1] = "n" THEN ScanChars(s, j + 2, Append(acc, NL))
        ELSE Fail
    ELSE IF s[j] = NL THEN Fail
    ELSE ScanChars(s, j + 1, Append(acc, s[j]))

RECURSIVE ScanDigits(_, _, _)
ScanDigits(s, j, acc) ==
    IF j <= Len(s) /\ s[j] \in Digits THEN ScanDigits(s, j + 1, Append(acc, s[j]))
    ELSE Ok(PyInt(acc), j)

RECURSIVE ScanValue(_, _)
RECURSIVE ScanMembers(_, _, _)
RECURSIVE ScanElements(_, _, _)

\* the members of an object, from the key expected at index j
ScanMembers(s, j, acc) ==
    IF j > Len(s) \/ s[j] # QUOTE THEN Fail
    ELSE LET k == ScanChars(s, j + 1, <<>>)
         IN  IF ~k.ok THEN Fail
             ELSE LET c == SkipWs(s, k.pos)
                  IN  IF c > Len(s) \/ s[c] # ":" THEN Fail
                      ELSE LET v == ScanValue(s, SkipWs(s, c + 1))
                           IN  IF ~v.ok THEN Fail
                               ELSE LET e == SkipWs(s, v.pos)
                                        pairs == DictPut(acc, k.val.v, v.val)
                                    IN  IF e > Len(s) THEN Fail
                                        ELSE IF s[e] = "}" THEN Ok(PyDict(pairs), e + 1)
                                        ELSE IF s[e] = ","
                                             THEN ScanMembers(s, SkipWs(s, e + 1), pairs)
                                        ELSE Fail

\* the elements of an array, from the value expected at index j
ScanElements(s, j, acc) ==
    LET v == ScanValue(s, j)
    IN  IF ~v.ok THEN Fail
        ELSE LET e == SkipWs(s, v.pos)
                 vals == Append(acc, v.val)
             IN  IF e > Len(s) THEN Fail
                 ELSE IF s[e] = "]" THEN Ok(PyList(vals), e + 1)
                 ELSE IF s[e] = "," THEN ScanElements(s, SkipWs(s, e + 1), vals)
                 ELSE Fail

ScanValue(s, i) ==
    IF i > Len(s) THEN Fail
    ELSE IF s[i] = "{" THEN
        LET j == SkipWs(s, i + 1)
        IN  IF j <= Len(s) /\ s[j] = "}" THEN Ok(PyDict(<<>>), j + 1)
            ELSE ScanMembers(s, j, <<>>)
    ELSE IF s[i] = "[" THEN
        LET j == SkipWs(s, i + 1)
        IN  IF j <= Len(s) /\ s[j] = "]" THEN Ok(PyList(<<>>), j + 1)
            ELSE ScanElements(s, j, <<>>)
    ELSE IF s[i] = QUOTE THEN ScanChars(s, i + 1, <<>>)
    ELSE IF s[i] \in Digits THEN ScanDigits(s, i, <<>>)
    ELSE Fail

\* json.loads(s): [ok, val]; ok is FALSE where json.loads raises JSONDecodeError
Loads(s) ==
    LET r == ScanValue(s, SkipWs(s, 1))
    IN  IF r.ok /\ SkipWs(s, r.pos) = Len(s) + 1 THEN r ELSE Fail

(***************************************************************************)
(* json.dump(value, f, indent=2) of save_solution, as a token sequence     *)
(***************************************************************************)
RECURSIVE EscapeChars(_)
EscapeChars(cs) ==
    IF cs = <<>> THEN <<>>
    ELSE (IF Head(cs) \in {QUOTE, BSLASH} THEN <<BSLASH, Head(cs)>>
          ELSE IF Head(cs) = NL THEN <<BSLASH, "n">>
          ELSE <<Head(cs)>>) \o EscapeChars(Tail(cs))

DumpStr(cs) == <<QUOTE>> \o EscapeChars(cs) \o <<QUOTE>>

RECURSIVE Indent(_)
\* a line break followed by the indentation of nesting depth d
Indent(d) == IF d = 0 THEN <<NL>> ELSE Indent(d - 1) \o <<SP, SP>>

RECURSIVE Dumps(_, _)
RECURSIVE DumpItems(_, _, _, _)
\* the items of a list (isDict = FALSE) or dict (isDict = TRUE) from index i
DumpItems(items, i, d, isDict) ==
    IF i > Len(items) THEN <<>>
    ELSE Indent(d)
         \o (IF isDict
             THEN DumpStr(items[i][1]) \o <<":", SP>> \o Dumps(items[i][2], d)
             ELSE Dumps(items[i], d))
         \o (IF i < Len(items) THEN <<",">> ELSE <<>>)
         \o DumpItems(items, i + 1, d, isDict)

Dumps(x, d) ==
    IF x.t = "str" THEN DumpStr(x.v)
    ELSE IF x.t = "int" THEN x.v
    ELSE IF x.t = "list" THEN
        IF x.v = <<>> THEN <<"[", "]">>
        ELSE <<"[">> \o DumpItems(x.v, 1, d + 1, FALSE) \o Indent(d) \o <<"]">>
    ELSE IF x.t = "dict" THEN
        IF x.v = <<>> THEN <<"{", "}">>
        ELSE <<"{">> \o DumpItems(x.v, 1, d + 1, TRUE) \o Indent(d) \o <<"}">>
    ELSE <<"null">>

\* json.dumps(x, indent=2)
JsonDump(x) == Dumps(x, 0)

(***************************************************************************)
(* The reply decoders of the two vision solvers.  A decoder returns        *)
(* [result, tried]: the value process_image_with_* returns, and the        *)
(* strategies its control flow went through, in order: 1 the json-labelled *)
(* block, 2 the fenced blocks, 3 the brace span / whole text, 4 the        *)
(* placeholder result.                                                     *)
(***************************************************************************)
K_STATEMENT == <<"problem_statement">>
K_SIGNATURES == <<"function_signatures">>
K_TESTS == <<"test_cases">>
K_SOLUTION == <<"solution">>

EXTRACTED == <<"Extracted from image">>
COULD_NOT == <<"Could not extract automatically.">>

\* the result built when no structured data was decoded
Placeholder(statement, solution) ==
    PyDict(<< <<K_STATEMENT, PyStr(statement)>>,
              <<K_SIGNATURES, PyList(<<>>)>>,
              <<K_TESTS, PyList(<<>>)>>,
              <<K_SOLUTION, PyStr(solution)>> >>)

\* text.split(sep)[k], k counted from 0
PyPart(text, sep, k) == Split(text, sep)[k + 1]

\* a variant that takes the last json-labelled block: text.split("```json")[-1]
JsonBlockTextLast(text) ==
    Strip(PyPart(Split(text, FJ)[Len(Split(text, FJ))], F, 0))

\* text.split("```json")[1].split("```")[0].strip()
JsonBlockText(text) == Strip(PyPart(PyPart(text, FJ, 1), F, 0))

\* the solution of the placeholder: the python block, else the first block, else the reply
RawSolution(text) ==
    IF Contains(text, FP) THEN Strip(PyPart(PyPart(text, FP, 1), F, 0))
    ELSE IF Contains(text, F) THEN Strip(PyPart(PyPart(text, F, 1), F, 0))
    ELSE text

RECURSIVE ScanBlocks(_, _)
\* the for loop over text.split("```"): the first piece that is braced and parses
ScanBlocks(blocks, i) ==
    IF i > Len(blocks) THEN Fail
    ELSE LET b == Strip(blocks[i])
         IN  IF StartsWith(b, "{") /\ EndsWith(b, "}") /\ Loads(b).ok
             THEN Loads(b)
             ELSE ScanBlocks(blocks, i + 1)

\* a variant without the brace search: the whole reply is parsed
BraceSpanWholeText(text) == Loads(text)

\* result_text[start_idx:end_idx] parsed, where the code finds a "{"
BraceSpan(text) ==
    LET start_idx == PyFind(text, <<"{">>)
        end_idx == PyRFind(text, <<"}">>) + 1
    IN  IF start_idx # -1 /\ end_idx # -1
        THEN Loads(PySlice(text, start_idx, end_idx))
        ELSE Fail

\* a variant in which each strategy that fails hands over to the next one
DecodeGeminiChain(text) ==
    LET r1 == IF Contains(text, FJ) THEN Loads(JsonBlockText(text)) ELSE Fail
        r2 == IF Contains(text, F) THEN ScanBlocks(Split(text, F), 1) ELSE Fail
        r3 == BraceSpan(text)
    IN  IF r1.ok THEN [result |-> r1.val, tried |-> <<1>>]
        ELSE IF r2.ok THEN [result |-> r2.val, tried |-> <<1, 2>>]
        ELSE IF r3.ok THEN [result |-> r3.val, tried |-> <<1, 2, 3>>]
        ELSE [result |-> Placeholder(COULD_NOT, RawSolution(text)),
              tried |-> <<1, 2, 3, 4>>]

GeminiBranch(text) ==
    IF Contains(text, FJ) THEN 1
    ELSE IF Contains(text, F) /\ Contains(text, <<"{">>) THEN 2
    ELSE 3

DecodeGemini(text) ==
    LET br == GeminiBranch(text)
    IN  IF br = 1 THEN
            LET r == Loads(JsonBlockText(text))
            IN  IF r.ok THEN [result |-> r.val, tried |-> <<1>>]
                ELSE [result |-> Placeholder(COULD_NOT, RawSolution(text)),
                      tried |-> <<1, 4>>]
        ELSE IF br = 2 THEN
            LET r == ScanBlocks(Split(text, F), 1)
            IN  IF r.ok THEN [result |-> r.val, tried |-> <<2>>]
                ELSE [result |-> Placeholder(COULD_NOT, RawSolution(text)),
                      tried |-> <<2, 4>>]
        ELSE
            LET r == BraceSpan(text)
            IN  IF r.ok THEN [result |-> r.val, tried |-> <<3>>]
                ELSE [result |-> Placeholder(EXTRACTED, RawSolution(text)),
                      tried |-> <<3, 4>>]

ClaudeBranch(text) ==
    IF Contains(text, FJ) THEN 1
    ELSE IF Contains(text, F) THEN 2
    ELSE 3

\* result_text.split("```")[1].strip()
ClaudeBlockText(text) == Strip(PyPart(text, F, 1))

DecodeClaude(text) ==
    LET br == ClaudeBranch(text)
    IN  IF br = 1 THEN
            LET r == Loads(JsonBlockText(text))
            IN  IF r.ok THEN [result |-> r.val, tried |-> <<1>>]
                ELSE [result |-> Placeholder(COULD_NOT, RawSolution(text)),
                      tried |-> <<1, 4>>]
        ELSE IF br = 2 THEN
            LET r == Loads(ClaudeBlockText(text))
            IN  IF r.ok THEN [result |-> r.val, tried |-> <<2>>]
                ELSE [result |-> Placeholder(EXTRACTED, ClaudeBlockText(text)),
                      tried |-> <<2, 4>>]
        ELSE
            LET r == Loads(text)
            IN  IF r.ok THEN [result |-> r.val, tried |-> <<3>>]
                ELSE [result |-> Placeholder(COULD_NOT, text), tried |-> <<3, 4>>]

Decode(which, text) == IF which = "gemini" THEN DecodeGemini(text) ELSE DecodeClaude(text)

(***************************************************************************)
(* Replies of the model provider.  A reply is built from parts: prose, or  *)
(* a closed fenced block with an optional language label.                  *)
(***************************************************************************)
\* most parts of one reply
MaxParts == 3
\* most characters of a free text field of an encoded result
MaxText == 2

Prose(content) == [kind |-> "prose", label |-> <<>>, content |-> content]
Block(label, content) == [kind |-> "block", label |-> label, content |-> content]

\* the text of one part: a block is fence, label, line break, content, line break, fence
RenderPart(p) ==
    IF p.kind = "prose" THEN p.content
    ELSE F \o p.label \o <<NL>> \o p.content \o <<NL>> \o F

RECURSIVE Render(_)
Render(ps) == IF ps = <<>> THEN <<>> ELSE RenderPart(Head(ps)) \o Render(Tail(ps))

CODE == <<"x">>
BRACED == <<"{", "x", "}">>
OBJ_X == <<"{", QUOTE, "solution", QUOTE, ":", SP, QUOTE, "x", QUOTE, "}">>
OBJ_Y == <<"{", QUOTE, "solution", QUOTE, ":", SP, QUOTE, "y", QUOTE, "}">>
ARRAY == <<"[", "1", "]">>
OBJ_NUM == <<"{", QUOTE, "solution", QUOTE, ":", SP, "1", "}">>
OBJ_EMPTY == <<"{", "}">>

NO_LABEL == <<>>
JSON_LABEL == <<"json">>
PYTHON_LABEL == <<"python">>

ProseParts == {Prose(c) : c \in {CODE, BRACED, OBJ_X}}
BlockParts ==
    {Block(l, c) : l \in {NO_LABEL, JSON_LABEL}, c \in {CODE, BRACED, OBJ_X, OBJ_Y}}
    \cup {Block(PYTHON_LABEL, c) : c \in {CODE, BRACED}}
Parts == ProseParts \cup BlockParts

PartSeqs == UNION {[1..n -> Parts] : n \in 0..MaxParts}

\* the replies the pipeline runs are checked on: one part each
PipelineParts ==
    {Block(JSON_LABEL, c) : c \in {OBJ_X, ARRAY, OBJ_NUM, OBJ_EMPTY, BRACED}}
    \cup {Block(NO_LABEL, ARRAY), Block(PYTHON_LABEL, CODE), Prose(CODE), Prose(ARRAY)}

\* well-formed structured results: the four fields, with free text
TextChars == {"x", QUOTE, NL, FENCE, "{"}
Texts(n) == UNION {[1..k -> TextChars] : k \in 0..n}
A_TEST ==
    PyDict(<< <<(<<"operation">>), PyStr(<<"x">>)>>,
              <<(<<"input">>), PyStr(<<"1">>)>>,
              <<(<<"expected_output">>), PyStr(<<"[", "1", "]">>)>> >>)
SolutionResult(statement, signatures, tests, solution) ==
    PyDict(<< <<K_STATEMENT, PyStr(statement)>>,
              <<K_SIGNATURES, PyList(signatures)>>,
              <<K_TESTS, PyList(tests)>>,
              <<K_SOLUTION, PyStr(solution)>> >>)
SolutionResults ==
    {SolutionResult(st, sg, ts, so) :
        st \in Texts(1), sg \in {<<>>, <<PyStr(<<"x">>)>>},
        ts \in {<<>>, <<A_TEST>>}, so \in Texts(MaxText)}

(***************************************************************************)
(* CodeGenerator.generate_solution: the filter applied to the model reply  *)
(***************************************************************************)
RECURSIVE Join(_)
\* '\n'.join(lines)
Join(lines) ==
    IF lines = <<>> THEN <<>>
    ELSE IF Len(lines) = 1 THEN lines[1]
    ELSE lines[1] \o <<NL>> \o Join(Tail(lines))

RECURSIVE FilterLines(_, _, _, _)
\* the for loop over solution.split('\n'), from line i, in_code_block as given
FilterLines(lines, i, in_code_block, hasFence) ==
    IF i > Len(lines) THEN <<>>
    ELSE IF StartsWith(Strip(lines[i]), FENCE)
         THEN FilterLines(lines, i + 1, ~in_code_block, hasFence)
    ELSE (IF in_code_block \/ ~hasFence THEN <<lines[i]>> ELSE <<>>)
         \o FilterLines(lines, i + 1, in_code_block, hasFence)

GenerateFilter(content) ==
    LET solution == Strip(content)
    IN  Join(FilterLines(Split(solution, <<NL>>), 1, FALSE, Contains(solution, F)))

(***************************************************************************)
(* Files                                                                   *)
(***************************************************************************)
SOLUTION_FILE == "B_solution.py"
INFO_FILE == "B_info.json"
OCR_SOLUTION_FILE == "solution_1.py"
EXTRACTED_FILE == "extracted_1.txt"
CONFIG_FILE == "camera_config.txt"
FileNames == {SOLUTION_FILE, INFO_FILE, OCR_SOLUTION_FILE, EXTRACTED_FILE, CONFIG_FILE}

Absent == [exists |-> FALSE, data |-> <<>>]

\* a variant that opens in append mode: what the file holds is kept
OpenForAppend(fs, name) == [fs EXCEPT ![name].exists = TRUE]

\* open(name, "w"): the file exists and is empty
OpenForWrite(fs, name) == [fs EXCEPT ![name] = [exists |-> TRUE, data |-> <<>>]]

\* f.write(data): data goes after what the open file holds
WriteData(fs, name, data) == [fs EXCEPT ![name].data = @ \o data]

\* what a write that fails part-way may leave: nothing, or the first half
PartialData(data) == {<<>>, SubSeq(data, 1, Len(data) \div 2)}

NO_SOLUTION == <<"# No solution generated">>

(***************************************************************************)
(* State                                                                   *)
(***************************************************************************)
VARIABLES
    solver,     \* the entry point: "gemini", "claude" (vision solvers), "ocr" (src/main.py)
    pc,         \* the position of main()
    parts,      \* the reply of the provider, as parts
    reply,      \* the reply of the provider, as text
    sent,       \* the structured result the reply encodes, PyNone when it encodes none
    result,     \* the value returned by the decode step
    tried,      \* the strategies the decode step went through
    files,      \* the output directory: file name -> [exists, data]
    files0,     \* the output directory when the run began
    written,    \* the files opened for writing in this run
    handles,    \* the files open now
    editor,     \* the outcome of the editor launch, "none" before any launch
    error,      \* the exception raised in this run: [kind, at]
    reported,   \* main() printed "Error: ..."
    runs,       \* the number of the run
    width,      \* the frame given to detect_regions
    height,
    regions,    \* the regions detect_regions returned
    ptexts,     \* the three texts handed to parse_content
    pdata,      \* what parse_content returned
    cam,        \* the camera device and the capture loop of capture_from_camera
    calls,      \* the provider calls made in this run
    image,      \* the image path main() works on
    opts,       \* the command line and the environment of the run
    key,        \* the API key the component was constructed with, "none" before
    clock,      \* time.time(), in seconds
    stream      \* the CameraStream object, and the calls of capture_frame so far

pipeVars == <<solver, pc, parts, reply, sent, result, tried, files, files0, written,
              handles, editor, error, reported, runs>>
frameVars == <<width, height, regions>>
runVars == <<opts, key, clock, stream>>
extVars == <<ptexts, pdata, cam, calls, image, runVars>>
vars == <<solver, pc, parts, reply, sent, result, tried, files, files0, written,
          handles, editor, error, reported, runs, width, height, regions,
          ptexts, pdata, cam, calls, image, opts, key, clock, stream>>

\* most runs of main() over the same output directory
MaxRuns == 2

NoError == [kind |-> "none", at |-> "none"]
Vision == {"gemini", "claude"}
Terminal == {"done", "exit", "crash"}

SolutionFileOf(which) == IF which = "ocr" THEN OCR_SOLUTION_FILE ELSE SOLUTION_FILE

InitPipe(entries) ==
    /\ solver \in entries
    /\ pc = "process"
    /\ parts = <<>>
    /\ reply = <<>>
    /\ sent = PyNone
    /\ result = PyNone
    /\ tried = <<>>
    /\ files = [n \in FileNames |-> Absent]
    /\ files0 = [n \in FileNames |-> Absent]
    /\ written = {}
    /\ handles = {}
    /\ editor = "none"
    /\ error = NoError
    /\ reported = FALSE
    /\ runs = 1

InitFrame ==
    /\ width = 0
    /\ height = 0
    /\ regions = <<>>

\* state: the device; warm: the warm-up delay has elapsed since it was opened;
\* reads: frame reads so far (counted up to MaxReads); early: a frame was read
\* before the warm-up; key: the key the next waitKey returns; last: the key the
\* last waitKey returned; frame: the frame last read; saved: the frame in the
\* image file, 0 when there is no file; count: frame_count of src/main.py
\* (counted up to MaxReads); id: the camera id the selection utility parsed
\* from the user's answer, -1 before
NoCamera == [state |-> "none", warm |-> FALSE, reads |-> 0, early |-> FALSE,
             key |-> "none", last |-> "none", frame |-> 0, saved |-> 0, count |-> 0,
             id |-> -1]

\* the command lines and environments of a run
Options == [api_key : {"absent", "empty", "given"}, env_key : {"unset", "empty", "set"},
            continuous : BOOLEAN]

\* self.api_key = api_key or os.environ.get(...): an empty string is false
SelectKey(o) ==
    IF o.api_key = "given" THEN "flag" ELSE IF o.env_key = "set" THEN "env" ELSE "none"

\* api_key: --api-key is absent, given with an empty value, or given;
\* env_key: the provider's environment variable is unset, empty, or set;
\* continuous: --continuous (src/main.py)
NoOpts == [api_key |-> "absent", env_key |-> "unset", continuous |-> FALSE]

\* camera: what capture_frame reads from ("usb", "ip", or "none" when nothing
\* is connected); log: the calls of capture_frame so far, each with its clock
\* time t, whether it read the device or the network, what it returned, and
\* last_capture_time when it returned
NoStream == [camera |-> "none", capture_interval |-> 0, last_capture_time |-> 0,
             log |-> <<>>]

InitExt ==
    /\ ptexts = <<>>
    /\ pdata = PyNone
    /\ cam = NoCamera
    /\ calls = 0
    /\ image = "none"
    /\ opts = NoOpts
    /\ key = "none"
    /\ clock = 0
    /\ stream = NoStream

(***************************************************************************)
(* main() of the vision solvers from the provider call on, and the sink of *)
(* the OCR pipeline (generate_solution, OutputHandler) as src/main.py      *)
(* calls it.                                                               *)
(***************************************************************************)
\* an exception leaves the step at pc: main() of a vision solver catches every
\* Exception; src/main.py catches KeyboardInterrupt only
Raise(kind) ==
    /\ error' = [kind |-> kind, at |-> pc]
    /\ pc' = IF solver \in Vision THEN "except" ELSE "crash"
    /\ handles' = {}

\* the image main() hands to the processing step can be opened: it is the
\* file of --image-path, or the capture, if cv2.imwrite did write it
ImageReadable == image # "captured" \/ cam.saved # 0

\* the provider answers with one of the replies in S (sequences of parts)
ProviderReplies(S) ==
    /\ pc = "process"
    /\ ImageReadable
    /\ \E ps \in S :
        /\ parts' = ps
        /\ reply' = Render(ps)
    /\ calls' = calls + 1
    /\ pc' = "decode"
    /\ UNCHANGED <<solver, sent, result, tried, files, files0, written, handles, editor,
                   error, reported, runs, frameVars, runVars, ptexts, pdata, cam, image>>

ProviderReply == ProviderReplies({<<p>> : p \in PipelineParts})

ProviderReplyParts == ProviderReplies(PartSeqs)

\* the provider answers with a structured result serialized in a json block
ProviderEncodes ==
    /\ pc = "process"
    /\ \E x \in SolutionResults :
        /\ sent' = x
        /\ parts' = <<Block(JSON_LABEL, JsonDump(x))>>
        /\ reply' = Render(<<Block(JSON_LABEL, JsonDump(x))>>)
    /\ calls' = calls + 1
    /\ pc' = "decode"
    /\ UNCHANGED <<solver, result, tried, files, files0, written, handles, editor,
                   error, reported, runs, frameVars, runVars, ptexts, pdata, cam, image>>

\* a variant that swallows the failure of the provider call and goes on with
\* a placeholder result
ProviderFailsSwallowed ==
    /\ pc = "process"
    /\ ImageReadable
    /\ calls' = calls + 1
    /\ error' = [kind |-> "ProviderError", at |-> pc]
    /\ result' = Placeholder(COULD_NOT, <<>>)
    /\ pc' = "save"
    /\ UNCHANGED <<solver, parts, reply, sent, tried, files, files0, written, handles,
                   editor, reported, runs, frameVars, runVars, ptexts, pdata, cam, image>>

\* the provider call raises: the vision solvers print and re-raise
ProviderFails ==
    /\ pc = "process"
    /\ ImageReadable
    /\ calls' = calls + 1
    /\ Raise("ProviderError")
    /\ UNCHANGED <<solver, parts, reply, sent, result, tried, files, files0, written,
                   editor, reported, runs, frameVars, runVars, ptexts, pdata, cam, image>>

\* the image file is opened before the provider is called: when the capture
\* left no file this raises, and the except clause prints and re-raises
ImageOpenFails ==
    /\ pc = "process"
    /\ ~ImageReadable
    /\ Raise("FileNotFoundError")
    /\ UNCHANGED <<solver, parts, reply, sent, result, tried, files, files0, written,
                   editor, reported, runs, frameVars, extVars>>

\* the decode step of process_image_with_gemini / process_image_with_claude
DecodeReply ==
    /\ pc = "decode"
    /\ solver \in Vision
    /\ result' = Decode(solver, reply).result
    /\ tried' = Decode(solver, reply).tried
    /\ pc' = "save"
    /\ UNCHANGED <<solver, parts, reply, sent, files, files0, written, handles, editor,
                   error, reported, runs, frameVars, extVars>>

\* generate_solution's post-processing of the reply
Generate ==
    /\ pc = "decode"
    /\ solver = "ocr"
    /\ result' = PyStr(GenerateFilter(reply))
    /\ pc' = "save"
    /\ UNCHANGED <<solver, parts, reply, sent, tried, files, files0, written, handles,
                   editor, error, reported, runs, frameVars, extVars>>

\* save_solution: open(solution_file, "w")
SolutionOpen ==
    /\ pc = "save"
    /\ \/ /\ files' = OpenForWrite(files, SolutionFileOf(solver))
          /\ written' = written \cup {SolutionFileOf(solver)}
          /\ handles' = handles \cup {SolutionFileOf(solver)}
          /\ pc' = "sol_write"
          /\ UNCHANGED error
       \/ /\ Raise("OSError")
          /\ UNCHANGED <<files, written>>
    /\ UNCHANGED <<solver, parts, reply, sent, result, tried, files0, editor, reported,
                   runs, frameVars, extVars>>

\* the text save_solution writes: result.get("solution", ...) in the vision
\* solvers, the solution itself in OutputHandler
SolutionValue ==
    IF solver = "ocr" THEN result ELSE DictGet(result, K_SOLUTION, PyStr(NO_SOLUTION))

\* where save_solution goes on after the solution file is closed
AfterSolution(which) == IF which = "ocr" THEN "open_editor" ELSE "info_open"

\* a variant without the with block: the solution file is left open
SolutionWriteKeepsOpen ==
    /\ pc = "sol_write"
    /\ IF solver \in Vision /\ ~IsDict(result)
       THEN Raise("AttributeError") /\ UNCHANGED files
       ELSE IF ~IsStr(SolutionValue)
       THEN Raise("TypeError") /\ UNCHANGED files
       ELSE \/ /\ files' = WriteData(files, SolutionFileOf(solver), SolutionValue.v)
               /\ pc' = AfterSolution(solver)
               /\ UNCHANGED <<error, handles>>
            \/ /\ \E d \in PartialData(SolutionValue.v) :
                    files' = WriteData(files, SolutionFileOf(solver), d)
               /\ Raise("OSError")
    /\ UNCHANGED <<solver, parts, reply, sent, result, tried, files0, written, editor,
                   reported, runs, frameVars, extVars>>

\* save_solution: f.write(...) and the end of the with block
SolutionWrite ==
    /\ pc = "sol_write"
    /\ IF solver \in Vision /\ ~IsDict(result)
       THEN Raise("AttributeError") /\ UNCHANGED files
       ELSE IF ~IsStr(SolutionValue)
       THEN Raise("TypeError") /\ UNCHANGED files
       ELSE \/ /\ files' = WriteData(files, SolutionFileOf(solver), SolutionValue.v)
               /\ handles' = handles \ {SolutionFileOf(solver)}
               /\ pc' = AfterSolution(solver)
               /\ UNCHANGED error
            \/ /\ \E d \in PartialData(SolutionValue.v) :
                    files' = WriteData(files, SolutionFileOf(solver), d)
               /\ Raise("OSError")
    /\ UNCHANGED <<solver, parts, reply, sent, result, tried, files0, written, editor,
                   reported, runs, frameVars, extVars>>

\* save_solution of the vision solvers: open(info_file, "w")
InfoOpen ==
    /\ pc = "info_open"
    /\ \/ /\ files' = OpenForWrite(files, INFO_FILE)
          /\ written' = written \cup {INFO_FILE}
          /\ handles' = handles \cup {INFO_FILE}
          /\ pc' = "info_dump"
          /\ UNCHANGED error
       \/ /\ Raise("OSError")
          /\ UNCHANGED <<files, written>>
    /\ UNCHANGED <<solver, parts, reply, sent, result, tried, files0, editor, reported,
                   runs, frameVars, extVars>>

\* save_solution of the vision solvers: json.dump(result, f, indent=2), the end
\* of the with block, the two prints and the return
InfoDump ==
    /\ pc = "info_dump"
    /\ \/ /\ files' = WriteData(files, INFO_FILE, JsonDump(result))
          /\ handles' = handles \ {INFO_FILE}
          /\ pc' = "open_editor"
          /\ UNCHANGED error
       \/ /\ \E d \in PartialData(JsonDump(result)) :
               files' = WriteData(files, INFO_FILE, d)
          /\ Raise("OSError")
    /\ UNCHANGED <<solver, parts, reply, sent, result, tried, files0, written, editor,
                   reported, runs, frameVars, extVars>>

\* what subprocess.run(['code', filepath], check=True) can do
LaunchOutcomes ==
    {"ok", "FileNotFoundError", "CalledProcessError", "PermissionError", "OSError"}

\* the exceptions open_in_vscode catches
Caught(which, outcome) ==
    IF which = "ocr" THEN outcome \in {"CalledProcessError", "FileNotFoundError"}
    ELSE TRUE

\* open_in_vscode, and what main() does after it
OpenInVSCode ==
    /\ pc = "open_editor"
    /\ \E o \in LaunchOutcomes :
        /\ editor' = o
        /\ IF o = "ok" \/ Caught(solver, o)
           THEN pc' = "done" /\ UNCHANGED <<error, handles>>
           ELSE Raise(o)
    /\ UNCHANGED <<solver, parts, reply, sent, result, tried, files, files0, written,
                   reported, runs, frameVars, extVars>>

\* main() of a vision solver: except Exception as e: print(f"Error: {e}"); return
MainExcept ==
    /\ pc = "except"
    /\ reported' = TRUE
    /\ pc' = "exit"
    /\ UNCHANGED <<solver, parts, reply, sent, result, tried, files, files0, written,
                   handles, editor, error, runs, frameVars, extVars>>

\* the program is run again over the same output directory and base name
RunAgain(start) ==
    /\ pc \in Terminal
    /\ runs < MaxRuns
    /\ runs' = runs + 1
    /\ pc' = start
    /\ parts' = <<>>
    /\ reply' = <<>>
    /\ sent' = PyNone
    /\ result' = PyNone
    /\ tried' = <<>>
    /\ files0' = files
    /\ written' = {}
    /\ handles' = {}
    /\ editor' = "none"
    /\ error' = NoError
    /\ reported' = FALSE
    /\ cam' = NoCamera
    /\ calls' = 0
    /\ image' = "none"
    /\ opts' = NoOpts
    /\ key' = "none"
    /\ stream' = NoStream
    /\ UNCHANGED <<solver, files, frameVars, ptexts, pdata, clock>>

\* a run of the pipeline from the processing step on
Rerun == RunAgain("process")

Init == InitPipe(Vision \cup {"ocr"}) /\ InitFrame /\ InitExt

Next ==
    \/ ProviderReply
    \/ ProviderFails
    \/ DecodeReply
    \/ Generate
    \/ SolutionOpen
    \/ SolutionWrite
    \/ InfoOpen
    \/ InfoDump
    \/ OpenInVSCode
    \/ MainExcept
    \/ Rerun

Spec == Init /\ [][Next]_vars

\* the decode step alone, over replies of several parts
InitDecode == InitPipe(Vision) /\ InitFrame /\ InitExt

NextDecode ==
    \/ ProviderReplyParts
    \/ ProviderEncodes
    \/ DecodeReply

SpecDecode == InitDecode /\ [][NextDecode]_vars

(***************************************************************************)
(* ImageProcessor.detect_regions.  width * 0.3 and width * 0.7 are IEEE    *)
(* double products (round to nearest, ties to even) and int() truncates.   *)
(* A double constant is its 53-bit significand, in three limbs of 20 bits  *)
(* (limbs[1] the highest), and the exponent e: the constant is             *)
(* significand / 2^e.                                                      *)
(***************************************************************************)
\* widest and tallest frame
MaxWidth == 200
MaxHeight == 2

RECURSIVE Pow2(_)
Pow2(n) == IF n = 0 THEN 1 ELSE 2 * Pow2(n - 1)

RECURSIVE BitLen(_)
BitLen(n) == IF n = 0 THEN 0 ELSE 1 + BitLen(n \div 2)

LIMB == Pow2(20)
\* 0.3 = 0x1.3333333333333p-2 and 0.7 = 0x1.6666666666666p-1
DOUBLE_0_3 == [limbs |-> <<4915, 209715, 209715>>, e |-> 54]
DOUBLE_0_7 == [limbs |-> <<5734, 419430, 419430>>, e |-> 53]

\* int(w * c) for an integer 0 <= w < 2048 and the double c
FloatMulInt(w, c) ==
    LET t0 == w * c.limbs[3]
        t1 == w * c.limbs[2] + t0 \div LIMB
        p0 == t0 % LIMB
        p1 == t1 % LIMB
        p2 == w * c.limbs[1] + t1 \div LIMB
        \* the bits of the exact product beyond the 53 a double keeps
        d == 40 + BitLen(p2) - 53
        rem == p0 % Pow2(d)
        q0 == p0 \div Pow2(d)
        up == rem > Pow2(d - 1) \/ (rem = Pow2(d - 1) /\ q0 % 2 = 1)
        r0 == (q0 + (IF up THEN 1 ELSE 0)) * Pow2(d)
        r1 == p1 + r0 \div LIMB
        r2 == p2 + r1 \div LIMB
    IN  IF p2 = 0 THEN 0
        ELSE IF d <= 0 THEN p2 \div Pow2(c.e - 40)
        ELSE r2 \div Pow2(c.e - 40)

\* the slice frame[y0:y1, x0:x1] of a frame of the given height and width
Region(y0, y1, x0, x1) == [y0 |-> y0, y1 |-> y1, x0 |-> x0, x1 |-> x1]
RegionWidth(r) == IF r.x1 > r.x0 THEN r.x1 - r.x0 ELSE 0
RegionHeight(r) == IF r.y1 > r.y0 THEN r.y1 - r.y0 ELSE 0

\* n / d rounded to the nearest integer, halves to the even one
RoundDiv(n, d) ==
    IF 2 * (n % d) > d \/ (2 * (n % d) = d /\ (n \div d) % 2 = 1)
    THEN n \div d + 1
    ELSE n \div d

\* a variant that rounds the two boundaries instead of truncating them
DetectRegionsRounded(h, w) ==
    << Region(0, h, 0, RoundDiv(3 * w, 10)),
       Region(0, h, RoundDiv(3 * w, 10), RoundDiv(7 * w, 10)),
       Region(0, h, RoundDiv(7 * w, 10), w) >>

\* a variant whose middle strip has boundaries of its own, rounded
DetectRegionsMixed(h, w) ==
    << Region(0, h, 0, FloatMulInt(w, DOUBLE_0_3)),
       Region(0, h, RoundDiv(3 * w, 10), RoundDiv(7 * w, 10)),
       Region(0, h, FloatMulInt(w, DOUBLE_0_7), w) >>

\* (problem_region, code_editor_region, test_cases_region)
DetectRegions(h, w) ==
    << Region(0, h, 0, FloatMulInt(w, DOUBLE_0_3)),
       Region(0, h, FloatMulInt(w, DOUBLE_0_3), FloatMulInt(w, DOUBLE_0_7)),
       Region(0, h, FloatMulInt(w, DOUBLE_0_7), w) >>

\* a frame of some size arrives
GetFrame ==
    /\ pc = "frame"
    /\ \E w \in 0..MaxWidth, h \in 0..MaxHeight :
        /\ width' = w
        /\ height' = h
    /\ pc' = "detect"
    /\ UNCHANGED <<solver, parts, reply, sent, result, tried, files, files0, written,
                   handles, editor, error, reported, runs, regions, extVars>>

\* process_frame calls detect_regions(frame)
Detect ==
    /\ pc = "detect"
    /\ regions' = DetectRegions(height, width)
    /\ pc' = "regions"
    /\ UNCHANGED <<solver, parts, reply, sent, result, tried, files, files0, written,
                   handles, editor, error, reported, runs, width, height, extVars>>

InitRegions ==
    /\ solver = "ocr"
    /\ pc = "frame"
    /\ parts = <<>>
    /\ reply = <<>>
    /\ sent = PyNone
    /\ result = PyNone
    /\ tried = <<>>
    /\ files = [n \in FileNames |-> Absent]
    /\ files0 = [n \in FileNames |-> Absent]
    /\ written = {}
    /\ handles = {}
    /\ editor = "none"
    /\ error = NoError
    /\ reported = FALSE
    /\ runs = 1
    /\ InitFrame
    /\ InitExt

NextRegions ==
    \/ GetFrame
    \/ Detect

SpecRegions == InitRegions /\ [][NextRegions]_vars

(***************************************************************************)
(* ProblemParser (src/problem_parser.py).  The three regular expressions   *)
(* are computed on token sequences the way re computes them on characters: *)
(* leftmost match, lazy and greedy quantifiers in backtracking order.  The *)
(* words the patterns look for are tokens of their own.                    *)
(***************************************************************************)
SCENARIO == "Scenario"
UNIT_TESTS == "Unit tests"
KW_DEF == "def"
ARROW == "->"
IS == "is"
Operations == {"Add", "Delete", "Median of"}
DigitChars == {"1", "3"}
\* the tokens made of \w characters only
WordChars == {KW_DEF, IS, "f", "g", "x", "int", "List", "th", "Add", "Delete", "1", "3"}

MinOf(S) == CHOOSE i \in S : \A j \in S : i <= j

\* $ without re.MULTILINE: the end of the text, or just before a final newline
AtEnd(s, i) == i = Len(s) + 1 \/ (i = Len(s) /\ s[i] = NL)

\* $ with re.MULTILINE: the end of the text, or just before any newline
AtLineEnd(s, i) == i = Len(s) + 1 \/ (i <= Len(s) /\ s[i] = NL)

\* no newline among s[a..b]: what '.' can run over without re.DOTALL
NoNewline(s, a, b) == \A k \in a..b : s[k] # NL

\* a variant with a greedy group: the statement runs to the end of the text
ExtractProblemStatementGreedy(text) ==
    LET at == PyFind(text, <<SCENARIO>>)
    IN  IF at = -1 THEN text
        ELSE Strip(SubSeq(text, at + 2, Len(text)))

\* extract_problem_statement: re.search(r'Scenario(.*?)(?:Unit tests|$)', text, re.DOTALL)
ExtractProblemStatement(text) ==
    LET at == PyFind(text, <<SCENARIO>>)
    IN  IF at = -1 THEN text
        ELSE LET from == at + 2
                 stops == {i \in from..(Len(text) + 1) :
                              IsAt(text, <<UNIT_TESTS>>, i) \/ AtEnd(text, i)}
             IN  Strip(SubSeq(text, from, MinOf(stops) - 1))

RECURSIVE SkipWord(_, _)
\* \w+ / \w*: the index after the run of word characters from i
SkipWord(s, i) == IF i <= Len(s) /\ s[i] \in WordChars THEN SkipWord(s, i + 1) ELSE i

\* \)\s*(->\s*\w+)?: at p: the index after the colon, 0 when it does not match
HeaderTail(s, p) ==
    IF ~(p <= Len(s) /\ s[p] = ")") THEN 0
    ELSE LET q == SkipWs(s, p + 1)
             r == SkipWs(s, q + 1)
             t == SkipWord(s, r)
         IN  IF q <= Len(s) /\ s[q] = ARROW /\ t > r /\ t <= Len(s) /\ s[t] = ":"
             THEN t + 1
             ELSE IF q <= Len(s) /\ s[q] = ":" THEN q + 1
             ELSE 0

\* def\s+(\w+)\s*\((.*?)\)\s*(->\s*\w+)?: at i, re.DOTALL: the index after the
\* match, 0 when there is none
SignatureAt(s, i) ==
    LET w == SkipWs(s, i + 1)
        n == SkipWord(s, w)
        o == SkipWs(s, n)
        tails == {p \in (o + 1)..Len(s) : HeaderTail(s, p) # 0}
    IN  IF /\ i <= Len(s) /\ s[i] = KW_DEF
           /\ w > i + 1
           /\ n > w
           /\ o <= Len(s) /\ s[o] = "("
           /\ tails # {}
        THEN HeaderTail(s, MinOf(tails))
        ELSE 0

RECURSIVE FindSignatures(_, _)
\* re.finditer from index from on: match.group(0) of every match, in order
FindSignatures(s, from) ==
    LET starts == {i \in from..Len(s) : SignatureAt(s, i) # 0}
    IN  IF starts = {} THEN <<>>
        ELSE LET i == MinOf(starts)
             IN  <<PyStr(SubSeq(s, i, SignatureAt(s, i) - 1))>>
                 \o FindSignatures(s, SignatureAt(s, i))

\* extract_function_signature
ExtractFunctionSignature(text) == FindSignatures(text, 1)

TestCase(operation, input, expected) ==
    PyDict(<< <<(<<"operation">>), PyStr(operation)>>,
              <<(<<"input">>), PyStr(input)>>,
              <<(<<"expected_output">>), PyStr(expected)>> >>)

\* (Add|Delete|Median of).*?(\d.*?)(?:is|->)\s*(.*?)$ at i, re.MULTILINE:
\* d the digit group 2 starts at, p the separator, w the start of group 3,
\* e the line end the match stops at; ok FALSE when there is no match
TestCaseAt(s, i) ==
    LET ds == {d \in (i + 1)..Len(s) : s[d] \in DigitChars /\ NoNewline(s, i + 1, d)}
        d == IF ds = {} THEN 0 ELSE MinOf(ds)
        ps == {p \in (d + 1)..Len(s) : s[p] \in {IS, ARROW} /\ NoNewline(s, d, p)}
        p == IF ps = {} THEN 0 ELSE MinOf(ps)
        w == SkipWs(s, p + 1)
        e == MinOf({k \in w..(Len(s) + 1) : AtLineEnd(s, k)})
    IN  IF i <= Len(s) /\ s[i] \in Operations /\ ds # {} /\ ps # {}
        THEN [ok |-> TRUE, end |-> e,
              case |-> TestCase(Strip(<<s[i]>>), Strip(SubSeq(s, d, p - 1)),
                                Strip(SubSeq(s, w, e - 1)))]
        ELSE [ok |-> FALSE, end |-> 0, case |-> PyNone]

RECURSIVE FindTestCases(_, _)
\* re.finditer from index from on: one test_case dict per match, in order
FindTestCases(s, from) ==
    LET starts == {i \in from..Len(s) : TestCaseAt(s, i).ok}
    IN  IF starts = {} THEN <<>>
        ELSE LET m == TestCaseAt(s, MinOf(starts))
             IN  <<m.case>> \o FindTestCases(s, m.end)

\* extract_test_cases
ExtractTestCases(text) == FindTestCases(text, 1)

\* the dict parse_content returns
ProblemData(statement, signatures, tests) ==
    PyDict(<< <<K_STATEMENT, statement>>,
              <<K_SIGNATURES, PyList(signatures)>>,
              <<K_TESTS, PyList(tests)>> >>)

(***************************************************************************)
(* The texts process_frame hands to parse_content.  A code editor text is  *)
(* a sequence of lines, each a function header or something else; a test   *)
(* text is a sequence of lines, each a test line or something else.        *)
(***************************************************************************)
\* most tokens of a problem text
MaxStatement == 4
\* most lines of a code editor text
MaxHeaders == 3
\* most lines of a test text
MaxLines == 3

StatementChars == {SCENARIO, UNIT_TESTS, "x", SP, NL}
StatementTexts == UNION {[1..n -> StatementChars] : n \in 0..MaxStatement}

Header(name, args, type) == [kind |-> "header", name |-> name, args |-> args, type |-> type]
TestLine(op, args, sep, expected) ==
    [kind |-> "test", op |-> op, args |-> args, sep |-> sep, expected |-> expected]
Junk(text) == [kind |-> "junk", text |-> text]

NO_TYPE == <<>>
TYPE_INT == <<"int">>
TYPE_LIST == <<"List", "[", "int", "]">>

\* the text of one line
RenderLine(l) ==
    IF l.kind = "header"
    THEN <<KW_DEF, SP, l.name, "(">> \o l.args \o <<")">>
         \o (IF l.type = NO_TYPE THEN <<>> ELSE <<SP, ARROW, SP>> \o l.type) \o <<":">>
    ELSE IF l.kind = "test"
    THEN <<l.op, SP>> \o l.args \o <<SP, l.sep>>
         \o (IF l.expected = <<>> THEN <<>> ELSE <<SP>> \o l.expected)
    ELSE l.text

RECURSIVE RenderLines(_)
\* the lines joined by newlines, as extract_text joins what OCR found
RenderLines(ls) ==
    IF ls = <<>> THEN <<>>
    ELSE IF Len(ls) = 1 THEN RenderLine(ls[1])
    ELSE RenderLine(ls[1]) \o <<NL>> \o RenderLines(Tail(ls))

HeaderLines ==
    {Header(n, <<"x">>, t) : n \in {"f", "g"}, t \in {NO_TYPE, TYPE_INT, TYPE_LIST}}
    \cup {Junk(<<"x">>), Junk(<<KW_DEF, SP, "f", "(", "x">>)}
HeaderTexts == UNION {[1..n -> HeaderLines] : n \in 0..MaxHeaders}

TestLines ==
    {TestLine("Add", <<"1">>, ARROW, <<"x">>),
     TestLine("Delete", <<"3">>, IS, <<"x">>),
     TestLine("Median of", <<"1", ",", SP, "3">>, IS, <<"3">>),
     TestLine("Add", <<"1">>, ARROW, <<>>),
     TestLine("Add", <<"1", SP, "th", IS>>, ARROW, <<"x">>),
     TestLine("Add", <<"x">>, ARROW, <<"x">>),
     Junk(<<"x">>),
     Junk(<<"x", SP, "Add", SP, "1", SP, ARROW, SP, "x">>)}
TestTexts == UNION {[1..n -> TestLines] : n \in 0..MaxLines}

A_STATEMENT == <<"x">>

\* process_frame on a frame: the three texts OCR found
ProcessFrame ==
    /\ pc = "ocr"
    /\ \/ \E t \in StatementTexts :
            /\ ptexts' = <<PyStr(t), PyStr(<<>>), PyStr(<<>>)>>
            /\ parts' = <<>>
       \/ \E hs \in HeaderTexts :
            /\ ptexts' = <<PyStr(A_STATEMENT), PyStr(RenderLines(hs)), PyStr(<<>>)>>
            /\ parts' = hs
       \/ \E ls \in TestTexts :
            /\ ptexts' = <<PyStr(A_STATEMENT), PyStr(<<>>), PyStr(RenderLines(ls))>>
            /\ parts' = ls
    /\ pc' = "parse"
    /\ UNCHANGED <<solver, reply, sent, result, tried, files, files0, written, handles,
                   editor, error, reported, runs, frameVars, runVars, pdata, cam,
                   calls, image>>

\* process_frame on a missing frame: return None, None, None
ProcessMissingFrame ==
    /\ pc = "ocr"
    /\ ptexts' = <<PyNone, PyNone, PyNone>>
    /\ pc' = "parse"
    /\ UNCHANGED <<solver, parts, reply, sent, result, tried, files, files0, written,
                   handles, editor, error, reported, runs, frameVars, runVars, pdata,
                   cam, calls,
                   image>>

\* parse_content: re.search / re.finditer raise TypeError on None
ParseContent ==
    /\ pc = "parse"
    /\ IF \E i \in 1..3 : ~IsStr(ptexts[i])
       THEN Raise("TypeError") /\ UNCHANGED pdata
       ELSE /\ pdata' = ProblemData(PyStr(ExtractProblemStatement(ptexts[1].v)),
                                    ExtractFunctionSignature(ptexts[2].v),
                                    ExtractTestCases(ptexts[3].v))
            /\ pc' = "parsed"
            /\ UNCHANGED <<error, handles>>
    /\ UNCHANGED <<solver, parts, reply, sent, result, tried, files, files0, written,
                   editor, reported, runs, frameVars, runVars, ptexts, cam, calls, image>>

InitParse ==
    /\ solver = "ocr"
    /\ pc = "ocr"
    /\ parts = <<>>
    /\ reply = <<>>
    /\ sent = PyNone
    /\ result = PyNone
    /\ tried = <<>>
    /\ files = [n \in FileNames |-> Absent]
    /\ files0 = [n \in FileNames |-> Absent]
    /\ written = {}
    /\ handles = {}
    /\ editor = "none"
    /\ error = NoError
    /\ reported = FALSE
    /\ runs = 1
    /\ InitFrame
    /\ InitExt

NextParse ==
    \/ ProcessFrame
    \/ ProcessMissingFrame
    \/ ParseContent

SpecParse == InitParse /\ [][NextParse]_vars

(***************************************************************************)
(* The replies generate_solution filters: lines of prose and fenced blocks *)
(* of code.  The opening fence of a block stands on a line of its own or   *)
(* follows prose on the same line; a block may lack its closing fence.     *)
(***************************************************************************)
\* most items (prose lines, code blocks) of one reply
MaxItems == 3

PROSE == <<"Here", SP, "it", SP, "is", ":">>
ProseLine == [kind |-> "prose", style |-> "line", label |-> NO_LABEL, content |-> PROSE]
CodeBlock(style, label, content) ==
    [kind |-> "code", style |-> style, label |-> label, content |-> content]

\* the text of one item
RenderItem(it) ==
    IF it.kind = "prose" THEN it.content
    ELSE (IF it.style = "inline" THEN PROSE \o <<SP>> ELSE <<>>)
         \o F \o it.label \o <<NL>> \o it.content
         \o (IF it.style = "unclosed" THEN <<>> ELSE <<NL>> \o F)

RECURSIVE RenderItems(_)
RenderItems(its) ==
    IF its = <<>> THEN <<>>
    ELSE IF Len(its) = 1 THEN RenderItem(its[1])
    ELSE RenderItem(its[1]) \o <<NL>> \o RenderItems(Tail(its))

Items ==
    {ProseLine}
    \cup {CodeBlock(st, l, c) : st \in {"own_line", "inline", "unclosed"},
                                l \in {NO_LABEL, PYTHON_LABEL},
                                c \in {<<"x">>, <<"x", NL, SP, "y">>}}
ItemSeqs == UNION {[1..n -> Items] : n \in 0..MaxItems}

\* openai.ChatCompletion.create answers: response.choices[0].message.content
GeneratorReply ==
    /\ pc = "process"
    /\ solver = "ocr"
    /\ \E its \in ItemSeqs :
        /\ parts' = its
        /\ reply' = RenderItems(its)
    /\ calls' = calls + 1
    /\ pc' = "decode"
    /\ UNCHANGED <<solver, sent, result, tried, files, files0, written, handles, editor,
                   error, reported, runs, frameVars, runVars, ptexts, pdata, cam, image>>

InitGenerate == InitPipe({"ocr"}) /\ InitFrame /\ InitExt

NextGenerate ==
    \/ GeneratorReply
    \/ Generate

SpecGenerate == InitGenerate /\ [][NextGenerate]_vars

(***************************************************************************)
(* capture_from_camera of the vision solvers, and the camera of the OCR    *)
(* pipeline (CameraStream as src/main.py drives it).                       *)
(***************************************************************************)
\* frames are numbered 1..MaxFrames, then the numbers repeat
MaxFrames == 3
\* frame reads are counted up to MaxReads
MaxReads == 2

Keys == {"space", "esc", "other"}
Polling == {"cap_read", "cap_failed", "cap_key"}

CountRead(c) ==
    [c EXCEPT !.reads = IF @ < MaxReads THEN @ + 1 ELSE @,
              !.early = @ \/ ~c.warm]

\* cv2.VideoCapture(camera_id) and the isOpened test
CamOpen ==
    /\ pc = "cap_open"
    /\ solver \in Vision
    /\ \/ /\ cam' = [cam EXCEPT !.state = "open"]
          /\ pc' = "cap_warm"
          /\ UNCHANGED <<error, handles>>
       \/ /\ Raise("DeviceUnavailable")
          /\ UNCHANGED cam
    /\ UNCHANGED <<solver, parts, reply, sent, result, tried, files, files0, written,
                   editor, reported, runs, frameVars, runVars, ptexts, pdata, calls,
                   image>>

\* cv2.namedWindow and time.sleep(2), the warm-up
CamWarmUp ==
    /\ pc = "cap_warm"
    /\ cam' = [cam EXCEPT !.warm = TRUE]
    /\ pc' = "cap_read"
    /\ UNCHANGED <<solver, parts, reply, sent, result, tried, files, files0, written,
                   handles, editor, error, reported, runs, frameVars, runVars, ptexts,
                   pdata,
                   calls, image>>

\* ret, frame = cap.read(); on success the frame is shown
CamRead ==
    /\ pc = "cap_read"
    /\ \/ /\ cam' = [CountRead(cam) EXCEPT !.frame = (@ % MaxFrames) + 1]
          /\ pc' = "cap_key"
       \/ /\ cam' = CountRead(cam)
          /\ pc' = "cap_failed"
    /\ UNCHANGED <<solver, parts, reply, sent, result, tried, files, files0, written,
                   handles, editor, error, reported, runs, frameVars, runVars, ptexts,
                   pdata,
                   calls, image>>

\* if not ret: print("Failed to capture frame"); continue
CamReadFailed ==
    /\ pc = "cap_failed"
    /\ pc' = "cap_read"
    /\ UNCHANGED <<solver, parts, reply, sent, result, tried, files, files0, written,
                   handles, editor, error, reported, runs, frameVars, extVars>>

\* the user presses a key while the window is polled
PressKey ==
    /\ pc \in Polling
    /\ cam.key = "none"
    /\ \E k \in Keys : cam' = [cam EXCEPT !.key = k]
    /\ UNCHANGED <<solver, pc, parts, reply, sent, result, tried, files, files0, written,
                   handles, editor, error, reported, runs, frameVars, runVars, ptexts,
                   pdata,
                   calls, image>>

\* key = cv2.waitKey(1) & 0xFF and the two tests on it; cv2.imwrite returns
\* False when it cannot write the file, and its result is not looked at
CamWaitKey ==
    /\ pc = "cap_key"
    /\ IF cam.key = "space"
       THEN /\ \/ cam' = [cam EXCEPT !.key = "none", !.last = "space", !.saved = cam.frame]
               \/ cam' = [cam EXCEPT !.key = "none", !.last = "space"]
            /\ image' = "captured"
            /\ pc' = "cap_release"
       ELSE IF cam.key = "esc"
       THEN /\ cam' = [cam EXCEPT !.key = "none", !.last = "esc"]
            /\ image' = "null"
            /\ pc' = "cap_release"
       ELSE /\ cam' = [cam EXCEPT !.key = "none", !.last = cam.key]
            /\ pc' = "cap_read"
            /\ UNCHANGED image
    /\ UNCHANGED <<solver, parts, reply, sent, result, tried, files, files0, written,
                   handles, editor, error, reported, runs, frameVars, runVars, ptexts,
                   pdata,
                   calls>>

\* finally: cap.release(); cv2.destroyAllWindows(); return image_path
CamRelease ==
    /\ pc = "cap_release"
    /\ cam' = [cam EXCEPT !.state = "released"]
    /\ pc' = "obtained"
    /\ UNCHANGED <<solver, parts, reply, sent, result, tried, files, files0, written,
                   handles, editor, error, reported, runs, frameVars, runVars, ptexts,
                   pdata,
                   calls, image>>

\* src/main.py: camera.connect_to_usb_camera; a failure is printed, sys.exit(1)
StreamConnect ==
    /\ pc = "cap_open"
    /\ solver = "ocr"
    /\ \/ /\ cam' = [cam EXCEPT !.state = "open"]
          /\ pc' = "stream_loop"
          /\ UNCHANGED <<error, reported>>
       \/ /\ error' = [kind |-> "DeviceUnavailable", at |-> pc]
          /\ reported' = TRUE
          /\ pc' = "exit"
          /\ UNCHANGED cam
    /\ UNCHANGED <<solver, parts, reply, sent, result, tried, files, files0, written,
                   handles, editor, runs, frameVars, runVars, ptexts, pdata, calls,
                   image>>

\* src/main.py: frame = camera.capture_frame(): None while the capture interval
\* has not passed (never on the first call) or when the read fails
StreamCaptureFrame ==
    /\ pc = "stream_loop"
    /\ \/ /\ cam' = [CountRead(cam) EXCEPT !.frame = (@ % MaxFrames) + 1,
                                           !.count = IF @ < MaxReads THEN @ + 1 ELSE @]
          /\ pc' = "save_frame"
       \/ /\ cam' = CountRead(cam)
          /\ pc' = "stream_loop"
       \/ /\ cam.reads > 0
          /\ UNCHANGED <<cam, pc>>
    /\ UNCHANGED <<solver, parts, reply, sent, result, tried, files, files0, written,
                   handles, editor, error, reported, runs, frameVars, runVars, ptexts,
                   pdata,
                   calls, image>>

\* src/main.py: processor.save_frame(frame, capture_path): ImageProcessor has
\* no save_frame, so AttributeError; finally: camera.release()
SaveFrame ==
    /\ pc = "save_frame"
    /\ Raise("AttributeError")
    /\ cam' = [cam EXCEPT !.state = "released"]
    /\ UNCHANGED <<solver, parts, reply, sent, result, tried, files, files0, written,
                   editor, reported, runs, frameVars, runVars, ptexts, pdata, calls,
                   image>>

InitCapture ==
    /\ solver \in Vision \cup {"ocr"}
    /\ pc = "cap_open"
    /\ parts = <<>>
    /\ reply = <<>>
    /\ sent = PyNone
    /\ result = PyNone
    /\ tried = <<>>
    /\ files = [n \in FileNames |-> Absent]
    /\ files0 = [n \in FileNames |-> Absent]
    /\ written = {}
    /\ handles = {}
    /\ editor = "none"
    /\ error = NoError
    /\ reported = FALSE
    /\ runs = 1
    /\ InitFrame
    /\ InitExt

\* the steps of the program, as opposed to those of the user
CaptureStep ==
    \/ CamOpen
    \/ CamWarmUp
    \/ CamRead
    \/ CamReadFailed
    \/ CamWaitKey
    \/ CamRelease
    \/ StreamConnect
    \/ StreamCaptureFrame
    \/ SaveFrame

NextCapture ==
    \/ CaptureStep
    \/ PressKey

SpecCapture == InitCapture /\ [][NextCapture]_vars

\* the program is single-threaded and keeps running: its next step is taken
SpecCaptureFair == InitCapture /\ [][NextCapture]_vars /\ WF_vars(CaptureStep)

\* Ctrl-C during capture_from_camera: from the try on, the finally clause
\* releases the device and closes the windows; namedWindow and the warm-up
\* sleep come before the try.  KeyboardInterrupt is not an Exception: the
\* except clause of main() does not catch it
CamInterrupt ==
    /\ pc \in {"cap_warm"} \cup Polling
    /\ solver \in Vision
    /\ error' = [kind |-> "KeyboardInterrupt", at |-> pc]
    /\ cam' = IF pc = "cap_warm" THEN cam ELSE [cam EXCEPT !.state = "released"]
    /\ pc' = "crash"
    /\ UNCHANGED <<solver, parts, reply, sent, result, tried, files, files0, written,
                   handles, editor, reported, runs, frameVars, runVars, ptexts, pdata,
                   calls, image>>

\* cap.read, cv2.imshow, cv2.waitKey or cv2.imwrite raises inside the try:
\* finally, then the exception reaches main()
CamFault ==
    /\ pc \in Polling
    /\ solver \in Vision
    /\ Raise("cv2.error")
    /\ cam' = [cam EXCEPT !.state = "released"]
    /\ UNCHANGED <<solver, parts, reply, sent, result, tried, files, files0, written,
                   editor, reported, runs, frameVars, runVars, ptexts, pdata, calls,
                   image>>

\* the capture with interrupts and exceptions
NextCaptureInt ==
    \/ NextCapture
    \/ CamInterrupt
    \/ CamFault

SpecCaptureInt == InitCapture /\ [][NextCaptureInt]_vars

(***************************************************************************)
(* main() of the vision solvers as a whole: the solver is constructed, the *)
(* image comes from --image-path or from the camera, then the processing,  *)
(* save and editor steps follow.                                           *)
(***************************************************************************)
\* parse_args, the solver's __init__ (the key is chosen; ValueError without
\* one), and image_path = args.image_path: empty, an existing file, or a
\* missing one
MainArgs ==
    /\ pc = "start"
    /\ solver \in Vision
    /\ \E o \in {x \in Options : ~x.continuous} :
        /\ opts' = o
        /\ key' = SelectKey(o)
        /\ IF SelectKey(o) = "none"
           THEN /\ Raise("ValueError")
                /\ UNCHANGED image
           ELSE \/ /\ pc' = "cap_open"
                   /\ UNCHANGED <<image, error, handles>>
                \/ /\ image' \in {"given", "missing"}
                   /\ pc' = "check_path"
                   /\ UNCHANGED <<error, handles>>
    /\ UNCHANGED <<solver, parts, reply, sent, result, tried, files, files0, written,
                   editor, reported, runs, frameVars, ptexts, pdata, cam, calls, clock,
                   stream>>

\* a variant without the os.path.exists test
CheckPathSkipped ==
    /\ pc = "check_path"
    /\ pc' = "process"
    /\ UNCHANGED <<solver, parts, reply, sent, result, tried, files, files0, written,
                   handles, editor, error, reported, runs, frameVars, extVars>>

\* elif not os.path.exists(image_path): print("Error: Image file ... not found"); return
CheckPath ==
    /\ pc = "check_path"
    /\ IF image = "missing"
       THEN reported' = TRUE /\ pc' = "exit"
       ELSE pc' = "process" /\ UNCHANGED reported
    /\ UNCHANGED <<solver, parts, reply, sent, result, tried, files, files0, written,
                   handles, editor, error, runs, frameVars, extVars>>

\* capture_from_camera has returned: if not image_path: print(...); return.
\* Of the capture, only the image file outlives the call.
MainObtained ==
    /\ pc = "obtained"
    /\ pc' = IF image = "null" THEN "exit" ELSE "process"
    /\ cam' = [NoCamera EXCEPT !.state = "released", !.saved = cam.saved]
    /\ UNCHANGED <<solver, parts, reply, sent, result, tried, files, files0, written,
                   handles, editor, error, reported, runs, frameVars, runVars, ptexts,
                   pdata,
                   calls, image>>

\* the program is run again from the start
RerunMain == RunAgain("start")

InitMain ==
    /\ solver \in Vision
    /\ pc = "start"
    /\ parts = <<>>
    /\ reply = <<>>
    /\ sent = PyNone
    /\ result = PyNone
    /\ tried = <<>>
    /\ files = [n \in FileNames |-> Absent]
    /\ files0 = [n \in FileNames |-> Absent]
    /\ written = {}
    /\ handles = {}
    /\ editor = "none"
    /\ error = NoError
    /\ reported = FALSE
    /\ runs = 1
    /\ InitFrame
    /\ InitExt

NextMain ==
    \/ MainArgs
    \/ CheckPath
    \/ CamOpen
    \/ CamWarmUp
    \/ CamRead
    \/ CamReadFailed
    \/ PressKey
    \/ CamWaitKey
    \/ CamRelease
    \/ MainObtained
    \/ ImageOpenFails
    \/ ProviderReply
    \/ ProviderFails
    \/ DecodeReply
    \/ SolutionOpen
    \/ SolutionWrite
    \/ InfoOpen
    \/ InfoDump
    \/ OpenInVSCode
    \/ MainExcept
    \/ RerunMain

SpecMain == InitMain /\ [][NextMain]_vars

(***************************************************************************)
(* main() of src/main.py: the components are constructed, the camera is    *)
(* connected, and the loop captures a frame and hands it on.               *)
(***************************************************************************)
\* parse_args and the components: CodeGenerator(api_key) in try / except
\* ValueError, which leaves generator_initialized False and goes on
StreamArgs ==
    /\ pc = "start"
    /\ solver = "ocr"
    /\ \E o \in Options :
        /\ opts' = o
        /\ key' = SelectKey(o)
    /\ pc' = "cap_open"
    /\ UNCHANGED <<solver, parts, reply, sent, result, tried, files, files0, written,
                   handles, editor, error, reported, runs, frameVars, ptexts, pdata, cam,
                   calls, image, clock, stream>>

generator_initialized == key # "none"

\* Ctrl-C in the loop: except KeyboardInterrupt: print; finally: camera.release()
StreamInterrupt ==
    /\ pc \in {"stream_loop", "save_frame"}
    /\ solver = "ocr"
    /\ error' = [kind |-> "KeyboardInterrupt", at |-> pc]
    /\ cam' = [cam EXCEPT !.state = "released"]
    /\ pc' = "exit"
    /\ UNCHANGED <<solver, parts, reply, sent, result, tried, files, files0, written,
                   handles, editor, reported, runs, frameVars, runVars, ptexts, pdata,
                   calls, image>>

\* the exit status of the process: 1 after sys.exit(1) and after an uncaught
\* exception, 0 when main() returns; -1 while it runs
ExitStatus ==
    IF pc = "crash" THEN 1
    ELSE IF pc = "exit" /\ solver = "ocr" /\ error.kind = "DeviceUnavailable" THEN 1
    ELSE IF pc \in Terminal THEN 0
    ELSE -1

InitOcr ==
    /\ solver = "ocr"
    /\ pc = "start"
    /\ parts = <<>>
    /\ reply = <<>>
    /\ sent = PyNone
    /\ result = PyNone
    /\ tried = <<>>
    /\ files = [n \in FileNames |-> Absent]
    /\ files0 = [n \in FileNames |-> Absent]
    /\ written = {}
    /\ handles = {}
    /\ editor = "none"
    /\ error = NoError
    /\ reported = FALSE
    /\ runs = 1
    /\ InitFrame
    /\ InitExt

NextOcr ==
    \/ StreamArgs
    \/ StreamConnect
    \/ StreamCaptureFrame
    \/ SaveFrame
    \/ StreamInterrupt
    \/ RerunMain

SpecOcr == InitOcr /\ [][NextOcr]_vars

(***************************************************************************)
(* select_and_confirm_camera of src/select_back_camera.py                  *)
(***************************************************************************)
\* camera ids the user may answer with: 0..MaxCamera
MaxCamera == 2

\* f"CAMERA_ID={camera_id}\n"
ConfigLine(n) == <<"CAMERA_ID=", ToString(n), NL>>

\* with open("camera_config.txt", "w") as f: f.write(...)
ConfigWritten(fs, c) ==
    WriteData(OpenForWrite(fs, CONFIG_FILE), CONFIG_FILE, ConfigLine(c.id))

\* the sample images are taken, then camera_id = input(...) and int(camera_id);
\* except ValueError: print("Invalid input..."); return
SelectInput ==
    /\ pc = "sel_input"
    /\ \/ /\ \E n \in 0..MaxCamera : cam' = [cam EXCEPT !.id = n]
          /\ pc' = "sel_open"
          /\ UNCHANGED reported
       \/ /\ reported' = TRUE
          /\ pc' = "exit"
          /\ UNCHANGED cam
    /\ UNCHANGED <<solver, parts, reply, sent, result, tried, files, files0, written,
                   handles, editor, error, runs, frameVars, runVars, ptexts, pdata, calls,
                   image>>

\* cap = cv2.VideoCapture(camera_id); if not cap.isOpened(): print; return
SelectOpen ==
    /\ pc = "sel_open"
    /\ \/ /\ cam' = [cam EXCEPT !.state = "open"]
          /\ pc' = "sel_read"
          /\ UNCHANGED reported
       \/ /\ reported' = TRUE
          /\ pc' = "exit"
          /\ UNCHANGED cam
    /\ UNCHANGED <<solver, parts, reply, sent, result, tried, files, files0, written,
                   handles, editor, error, runs, frameVars, runVars, ptexts, pdata, calls,
                   image>>

\* ret, frame = cap.read(); if not ret: print("Error capturing frame"); break;
\* else the frame is shown
SelectRead ==
    /\ pc = "sel_read"
    /\ \/ /\ cam' = [cam EXCEPT !.frame = (@ % MaxFrames) + 1]
          /\ pc' = "sel_key"
       \/ /\ pc' = "sel_cleanup"
          /\ UNCHANGED cam
    /\ UNCHANGED <<solver, parts, reply, sent, result, tried, files, files0, written,
                   handles, editor, error, reported, runs, frameVars, runVars, ptexts,
                   pdata, calls, image>>

\* if cv2.waitKey(1) & 0xFF == ord('q'): break
SelectWaitKey ==
    /\ pc = "sel_key"
    /\ \E k \in {"q", "other"} :
        /\ cam' = [cam EXCEPT !.last = k]
        /\ pc' = IF k = "q" THEN "sel_cleanup" ELSE "sel_read"
    /\ UNCHANGED <<solver, parts, reply, sent, result, tried, files, files0, written,
                   handles, editor, error, reported, runs, frameVars, runVars, ptexts,
                   pdata, calls, image>>

\* cap.release(); cv2.destroyAllWindows(); the two prints
SelectCleanup ==
    /\ pc = "sel_cleanup"
    /\ cam' = [cam EXCEPT !.state = "released"]
    /\ pc' = "sel_write"
    /\ UNCHANGED <<solver, parts, reply, sent, result, tried, files, files0, written,
                   handles, editor, error, reported, runs, frameVars, runVars, ptexts,
                   pdata, calls, image>>

\* the config file is written; open() may fail, which nothing catches
SelectWrite ==
    /\ pc = "sel_write"
    /\ \/ /\ files' = ConfigWritten(files, cam)
          /\ written' = written \cup {CONFIG_FILE}
          /\ pc' = "done"
          /\ UNCHANGED <<error, handles>>
       \/ /\ Raise("OSError")
          /\ UNCHANGED <<files, written>>
    /\ UNCHANGED <<solver, parts, reply, sent, result, tried, files0, editor, reported,
                   runs, frameVars, extVars>>

\* the utility is run again in the same directory
RerunSelect == RunAgain("sel_input")

InitSelect ==
    /\ solver = "select"
    /\ pc = "sel_input"
    /\ parts = <<>>
    /\ reply = <<>>
    /\ sent = PyNone
    /\ result = PyNone
    /\ tried = <<>>
    /\ files = [n \in FileNames |-> Absent]
    /\ files0 = [n \in FileNames |-> Absent]
    /\ written = {}
    /\ handles = {}
    /\ editor = "none"
    /\ error = NoError
    /\ reported = FALSE
    /\ runs = 1
    /\ InitFrame
    /\ InitExt

NextSelect ==
    \/ SelectInput
    \/ SelectOpen
    \/ SelectRead
    \/ SelectWaitKey
    \/ SelectCleanup
    \/ SelectWrite
    \/ RerunSelect

SpecSelect == InitSelect /\ [][NextSelect]_vars

(***************************************************************************)
(* CameraStream.capture_frame and its capture interval.  The clock counts  *)
(* in ticks; capture_interval is a number of ticks.                        *)
(***************************************************************************)
\* capture_interval is one of 0..MaxInterval
MaxInterval == 2
\* the clock stops at MaxClock
MaxClock == 6
\* most calls of capture_frame on one object
MaxCalls == 3

Call(t, read, ret, last) == [t |-> t, read |-> read, ret |-> ret, last |-> last]

\* a variant that sets last_capture_time only when a frame was read
CaptureFrameOnSuccess(s, now, ok) ==
    IF now - s.last_capture_time < s.capture_interval
    THEN [s EXCEPT !.log = Append(@, Call(now, FALSE, "None", s.last_capture_time))]
    ELSE IF s.camera = "none"
    THEN [s EXCEPT !.log = Append(@, Call(now, FALSE, "None", s.last_capture_time))]
    ELSE IF ok
    THEN [s EXCEPT !.last_capture_time = now, !.log = Append(@, Call(now, TRUE, "frame", now))]
    ELSE [s EXCEPT !.log = Append(@, Call(now, TRUE, "None", s.last_capture_time))]

\* capture_frame at clock time now; ok: the read of the device or the network
\* delivers a frame
CaptureFrame(s, now, ok) ==
    IF now - s.last_capture_time < s.capture_interval
    THEN [s EXCEPT !.log = Append(@, Call(now, FALSE, "None", s.last_capture_time))]
    ELSE IF s.camera = "none"
    THEN [s EXCEPT !.last_capture_time = now, !.log = Append(@, Call(now, FALSE, "None", now))]
    ELSE IF ok
    THEN [s EXCEPT !.last_capture_time = now, !.log = Append(@, Call(now, TRUE, "frame", now))]
    ELSE [s EXCEPT !.last_capture_time = now, !.log = Append(@, Call(now, TRUE, "None", now))]

\* CameraStream(capture_interval=...) and connect_to_usb_camera or
\* connect_to_ip_camera, or neither, at some time of the clock
StreamSetup ==
    /\ pc = "stream_new"
    /\ \E c \in {"usb", "ip", "none"}, i \in 0..MaxInterval :
        stream' = [NoStream EXCEPT !.camera = c, !.capture_interval = i]
    /\ clock' \in 0..MaxInterval
    /\ pc' = "stream_call"
    /\ UNCHANGED <<solver, parts, reply, sent, result, tried, files, files0, written,
                   handles, editor, error, reported, runs, frameVars, ptexts, pdata, cam,
                   calls, image, opts, key>>

\* time passes
Tick ==
    /\ pc = "stream_call"
    /\ clock < MaxClock
    /\ clock' = clock + 1
    /\ UNCHANGED <<solver, pc, parts, reply, sent, result, tried, files, files0, written,
                   handles, editor, error, reported, runs, frameVars, ptexts, pdata, cam,
                   calls, image, opts, key, stream>>

\* frame = camera.capture_frame()
StreamCall ==
    /\ pc = "stream_call"
    /\ Len(stream.log) < MaxCalls
    /\ \E ok \in BOOLEAN : stream' = CaptureFrame(stream, clock, ok)
    /\ UNCHANGED <<solver, pc, parts, reply, sent, result, tried, files, files0, written,
                   handles, editor, error, reported, runs, frameVars, ptexts, pdata, cam,
                   calls, image, opts, key, clock>>

InitStream ==
    /\ solver = "ocr"
    /\ pc = "stream_new"
    /\ parts = <<>>
    /\ reply = <<>>
    /\ sent = PyNone
    /\ result = PyNone
    /\ tried = <<>>
    /\ files = [n \in FileNames |-> Absent]
    /\ files0 = [n \in FileNames |-> Absent]
    /\ written = {}
    /\ handles = {}
    /\ editor = "none"
    /\ error = NoError
    /\ reported = FALSE
    /\ runs = 1
    /\ InitFrame
    /\ InitExt

NextStream ==
    \/ StreamSetup
    \/ Tick
    \/ StreamCall

SpecStream == InitStream /\ [][NextStream]_vars

(***************************************************************************)
(* Properties of the decode step (checked under SpecDecode).  They are     *)
(* stated on the parts the reply was built from.                           *)
(***************************************************************************)
Range(f) == {f[i] : i \in DOMAIN f}
Decoded == pc = "save"

IsBlock(p) == p.kind = "block"
Braced(c) == StartsWith(Strip(c), "{") /\ EndsWith(Strip(c), "}")
HasBrace(c) == \E i \in 1..Len(c) : c[i] \in {"{", "}"}
JsonBlocks(ps) == {i \in 1..Len(ps) : IsBlock(ps[i]) /\ ps[i].label = JSON_LABEL}
Blocks(ps) == {i \in 1..Len(ps) : IsBlock(ps[i])}
Min(S) == CHOOSE i \in S : \A j \in S : i <= j

\* the content of a block up to the first fence marker inside it
CutAtFence(c) == IF Contains(c, F) THEN SubSeq(c, 1, PyFind(c, F)) ELSE c

\* some fenced block holds a braced text that is valid JSON
SomeBlockParses(ps) ==
    \E i \in Blocks(ps) : Braced(ps[i].content) /\ Loads(Strip(ps[i].content)).ok

IsPlaceholder(x) ==
    \E st \in {EXTRACTED, COULD_NOT} :
        /\ IsDict(x)
        /\ Len(x.v) = 4
        /\ x.v[1] = <<K_STATEMENT, PyStr(st)>>
        /\ x.v[2] = <<K_SIGNATURES, PyList(<<>>)>>
        /\ x.v[3] = <<K_TESTS, PyList(<<>>)>>
        /\ x.v[4][1] = K_SOLUTION
        /\ IsStr(x.v[4][2])

\* the strategy the markers of a reply select in the Gemini decoder
SelectedStrategy(ps) ==
    IF JsonBlocks(ps) # {} THEN 1
    ELSE IF Blocks(ps) # {} /\ \E i \in 1..Len(ps) : HasBrace(RenderPart(ps[i])) THEN 2
    ELSE 3

\* C1 as claimed: in the Gemini decoder a strategy that fails hands over to the
\* next one, so the placeholder result is reached only when neither a fenced
\* block (strategy 2) nor the brace span of the reply (strategy 3) is valid JSON.
C1_FallsThroughInOrder ==
    (Decoded /\ solver = "gemini" /\ 4 \in Range(tried))
        => (~SomeBlockParses(parts) /\ ~BraceSpan(reply).ok)

\* C1 amended: the Gemini decoder tries exactly one of the strategies 1, 2, 3,
\* the one the markers of the reply select (a json-labelled fence; else a fence
\* and a brace; else neither), and when that one fails it goes straight to the
\* placeholder result, whatever the other strategies would have found.
C1_OneStrategyThenPlaceholder ==
    (Decoded /\ solver = "gemini") =>
        /\ tried \in {<<SelectedStrategy(parts)>>, <<SelectedStrategy(parts), 4>>}
        /\ (4 \in Range(tried)) = IsPlaceholder(result)
        /\ (/\ JsonBlocks(parts) # {}
            /\ ~Loads(CutAtFence(parts[Min(JsonBlocks(parts))].content)).ok)
               => 4 \in Range(tried)

\* C1 witness: the json-labelled block does not parse, another fenced block
\* holds valid JSON, and the decoder has returned the placeholder result.
C1_Witness ==
    /\ Decoded
    /\ solver = "gemini"
    /\ tried = <<1, 4>>
    /\ SomeBlockParses(parts)
    /\ IsPlaceholder(result)

\* C3 as claimed: decoding a reply that is a well-formed structured result
\* serialized in a json-labelled fence returns exactly that result.
C3_RoundTrip == (Decoded /\ sent # PyNone) => result = sent

\* C4 as claimed: when some json-labelled block holds valid JSON, the result
\* is the parsed content of the first such block.
C4_FirstValidJsonBlock ==
    LET valid == {i \in JsonBlocks(parts) : Loads(parts[i].content).ok}
    IN  (Decoded /\ sent = PyNone /\ valid # {})
            => result = Loads(parts[Min(valid)].content).val

\* C4 amended: when the text between the first json fence marker and the next
\* fence marker is valid JSON, the result is that text parsed, whatever comes
\* before or after it; a later json-labelled block is never looked at.
C4_FirstJsonBlock ==
    LET first == CutAtFence(parts[Min(JsonBlocks(parts))].content)
    IN  (Decoded /\ JsonBlocks(parts) # {}) =>
            IF Loads(first).ok THEN result = Loads(first).val
            ELSE IsPlaceholder(result)

\* C4 witness: two json-labelled blocks with different valid contents, other
\* parts around them, and the first one decoded.
C4_Witness ==
    /\ Decoded
    /\ Len(parts) = 3
    /\ parts[1] = Prose(OBJ_X)
    /\ parts[2] = Block(JSON_LABEL, OBJ_Y)
    /\ parts[3] = Block(JSON_LABEL, OBJ_X)
    /\ result = Loads(OBJ_Y).val

\* C5 as claimed: for a reply that is one fenced block of non-JSON content, the
\* result is the placeholder whose solution is exactly the trimmed content of
\* the block, with one fixed statement string (here: either of the two strings
\* of the code is accepted, so only the solution text decides).
C5_FencedCodeIsSolution ==
    (/\ Decoded
     /\ Len(parts) = 1
     /\ IsBlock(parts[1])
     /\ parts[1].label \in {NO_LABEL, PYTHON_LABEL}
     /\ ~Loads(parts[1].content).ok)
        => \E st \in {EXTRACTED, COULD_NOT} :
               result = Placeholder(st, Strip(parts[1].content))

Holds(data) == [exists |-> TRUE, data |-> data]

\* C2 as claimed: in the vision solvers no reply makes the decode step or the
\* persist step fail: a run that has its reply stops early only on a failure
\* of the provider or of the file system.
C2_ReplyNeverStopsPipeline ==
    (solver \in Vision /\ error.kind # "none") => error.kind \in {"ProviderError", "OSError"}

\* C7 as claimed: in every pipeline, the OCR one included, a persist that
\* returns has written two files, and the info file holds the serialized result.
C7_TwoFilesInEveryPipeline ==
    (pc = "open_editor") =>
        /\ Cardinality(written) = 2
        /\ files[INFO_FILE].exists
        /\ files[INFO_FILE].data = JsonDump(result)

\* C7 amended: in the two vision solvers a persist that returns has written
\* exactly the two files, the solution file holding exactly the solution text
\* (the default line when the result has no solution) and the info file the
\* serialized result, which parses back to the result, with nothing left of
\* what either file held before; OutputHandler.save_solution of the OCR
\* pipeline writes the one solution file only, holding exactly the solution
\* text, and no info file.
C7_PersistOverwrites ==
    (pc = "open_editor") =>
        IF solver \in Vision
        THEN /\ written = {SOLUTION_FILE, INFO_FILE}
             /\ files[SOLUTION_FILE] = Holds(SolutionValue.v)
             /\ files[INFO_FILE] = Holds(JsonDump(result))
             /\ Loads(files[INFO_FILE].data).ok
             /\ Loads(files[INFO_FILE].data).val = result
             /\ files[OCR_SOLUTION_FILE] = files0[OCR_SOLUTION_FILE]
        ELSE /\ written = {OCR_SOLUTION_FILE}
             /\ files[OCR_SOLUTION_FILE] = Holds(result.v)
             /\ files[INFO_FILE] = files0[INFO_FILE]
             /\ files[SOLUTION_FILE] = files0[SOLUTION_FILE]

\* C7 witness: a second persist under the same base name has returned, over
\* two files that held another result.
C7_Witness ==
    /\ pc = "open_editor"
    /\ solver \in Vision
    /\ runs = 2
    /\ files0[SOLUTION_FILE].exists
    /\ files0[INFO_FILE].exists
    /\ files0[SOLUTION_FILE].data # <<>>
    /\ files0[SOLUTION_FILE].data # files[SOLUTION_FILE].data
    /\ files0[INFO_FILE].data # files[INFO_FILE].data

\* C8: in save_solution of the vision solvers the solution file is complete
\* and closed when the info file is opened; when the info write fails the
\* solution file stays complete, the failure is reported and the editor is
\* not launched; when the solution write fails the info file is not written.
C8_SolutionBeforeInfo ==
    (solver \in Vision) =>
        /\ (INFO_FILE \in written) =>
               /\ SOLUTION_FILE \notin handles
               /\ files[SOLUTION_FILE] = Holds(SolutionValue.v)
        /\ (error.at \in {"info_open", "info_dump"}) =>
               /\ files[SOLUTION_FILE] = Holds(SolutionValue.v)
               /\ editor = "none"
               /\ pc \in {"except", "exit"}
               /\ (pc = "exit") => reported
        /\ (error.at \in {"save", "sol_write"}) =>
               /\ INFO_FILE \notin written
               /\ files[INFO_FILE] = files0[INFO_FILE]
               /\ editor = "none"
               /\ pc \in {"except", "exit"}
               /\ (pc = "exit") => reported

\* C8 witness: the info write failed part-way and main() has reported it.
C8_Witness ==
    /\ solver \in Vision
    /\ pc = "exit"
    /\ error = [kind |-> "OSError", at |-> "info_dump"]
    /\ reported
    /\ files[SOLUTION_FILE].exists
    /\ files[INFO_FILE].data # JsonDump(result)

\* C9 as claimed: in every entry point a failed editor launch is not fatal:
\* open_in_vscode raises nothing and the run goes on to its end.
C9_LaunchFailureNotFatal ==
    (editor \notin {"none", "ok"}) =>
        /\ error = NoError
        /\ pc = "done"
        /\ files[SolutionFileOf(solver)] = Holds(SolutionValue.v)

(***************************************************************************)
(* Properties of detect_regions (checked under SpecRegions)                *)
(***************************************************************************)
Widths == <<RegionWidth(regions[1]), RegionWidth(regions[2]), RegionWidth(regions[3])>>
FullHeight == \A i \in 1..3 : regions[i].y0 = 0 /\ regions[i].y1 = height

\* C10 as claimed: the widths are round(0.3 W), round(0.4 W) and the rest.
C10_RoundedWidths ==
    (pc = "regions") =>
        /\ Len(regions) = 3
        /\ Widths = << RoundDiv(3 * width, 10), RoundDiv(4 * width, 10),
                       width - RoundDiv(3 * width, 10) - RoundDiv(4 * width, 10) >>
        /\ FullHeight

\* the second boundary int(W * 0.7) in integers: floor(7 W / 10), one less where
\* 7 W / 10 is an integer k and the double product falls below k by more than
\* half a unit in the last place: 2 W > 5 * (the largest power of two below k)
SecondBoundary(w) ==
    (7 * w) \div 10
    - (IF w > 0 /\ w % 10 = 0 /\ 2 * w > 5 * Pow2(BitLen((7 * w) \div 10) - 1)
       THEN 1 ELSE 0)

\* C10 amended: the boundaries are truncated, not rounded: the widths are
\* int(0.3 W), int(0.7 W) - int(0.3 W) and W - int(0.7 W), where int(0.3 W) is
\* floor(3 W / 10) and int(0.7 W), a double product, is floor(7 W / 10) or, at
\* widths such as 90, 170 and 180, one less; each region has the full height.
C10_TruncatedWidths ==
    (pc = "regions") =>
        /\ Len(regions) = 3
        /\ Widths = << (3 * width) \div 10,
                       SecondBoundary(width) - (3 * width) \div 10,
                       width - SecondBoundary(width) >>
        /\ FullHeight

\* C10 witness: a frame 90 wide has been split into 27, 35 and 28 columns.
C10_Witness ==
    /\ pc = "regions"
    /\ width = 90
    /\ height = MaxHeight
    /\ Widths = <<27, 35, 28>>

(***************************************************************************)
(* Properties of parse_content (checked under SpecParse)                   *)
(***************************************************************************)
Parsed == pc = "parsed"
StatementOf(d) == d.v[1][2]
SignaturesOf(d) == d.v[2][2]
TestCasesOf(d) == d.v[3][2]

\* C11 as claimed: parse_content never raises, also on the None triple of a
\* missing frame, and returns a ProblemData with its three fields.
C11_ParseNeverRaises ==
    (pc \notin {"ocr", "parse"}) =>
        /\ error = NoError
        /\ Parsed
        /\ IsDict(pdata)
        /\ \A k \in {K_STATEMENT, K_SIGNATURES, K_TESTS} : HasKey(pdata, k)

\* a line of the shape  Op args sep expected  whose args begin with a digit
IsTestLine(l) == l.kind = "test" /\ l.args[1] \in DigitChars
RecordOf(l) == TestCase(<<l.op>>, Strip(l.args), Strip(l.expected))

\* C12 as claimed: extract_test_cases returns one record per test line, in
\* line order, built from that line alone; other lines contribute nothing.
C12_OneRecordPerTestLine ==
    (Parsed /\ ptexts[2].v = <<>> /\ ptexts[3].v = RenderLines(parts)) =>
        LET ls == SelectSeq(parts, IsTestLine)
        IN  TestCasesOf(pdata) = PyList([i \in 1..Len(ls) |-> RecordOf(ls[i])])

IsHeader(l) == l.kind = "header"

\* C13 as claimed: extract_function_signature returns one entry per function
\* header, in order, each the text of that header from def to its colon, and
\* the empty list when there is no header.
C13_OneEntryPerHeader ==
    (Parsed /\ ptexts[3].v = <<>> /\ ptexts[2].v = RenderLines(parts)) =>
        LET hs == SelectSeq(parts, IsHeader)
        IN  SignaturesOf(pdata) = PyList([i \in 1..Len(hs) |-> PyStr(RenderLine(hs[i]))])

\* C14: extract_problem_statement fails on no text; without the marker
\* Scenario it returns the text unchanged; with it, the trimmed text between
\* the first Scenario and the next Unit tests after it, or the end of the text.
C14_StatementBetweenMarkers ==
    /\ (pc \notin {"ocr", "parse"} /\ \A i \in 1..3 : IsStr(ptexts[i])) => Parsed
    /\ Parsed =>
        LET t == ptexts[1].v
            scenarios == {i \in 1..Len(t) : t[i] = SCENARIO}
            first == MinOf(scenarios)
            units == {i \in (first + 1)..Len(t) : t[i] = UNIT_TESTS}
            stop == IF units = {} THEN Len(t) + 1 ELSE MinOf(units)
        IN  IF scenarios = {}
            THEN StatementOf(pdata) = PyStr(t)
            ELSE StatementOf(pdata) = PyStr(Strip(SubSeq(t, first + 1, stop - 1)))

\* C14 witness: a text with both markers and text after the second one has
\* been cut down to what lies between them.
C14_Witness ==
    /\ Parsed
    /\ ptexts[1].v = <<SCENARIO, "x", UNIT_TESTS, "x">>
    /\ StatementOf(pdata) = PyStr(<<"x">>)

(***************************************************************************)
(* Properties of generate_solution (checked under SpecGenerate)            *)
(***************************************************************************)
IsCode(it) == it.kind = "code"

\* the contents of the code blocks of a reply, joined by newlines
CodeOf(its) ==
    LET blocks == SelectSeq(its, IsCode)
    IN  Join([i \in 1..Len(blocks) |-> blocks[i].content])

\* C15 as claimed: for a reply with a fenced code block the result is the
\* content of the block(s) and holds no fence marker, also when the opening
\* fence is not at the start of its line or the closing fence is missing; for
\* a reply without fence marker the result is the whole (trimmed) reply.
C15_KeepsFencedCode ==
    (pc = "save" /\ solver = "ocr") =>
        IF Contains(reply, F)
        THEN result = PyStr(CodeOf(parts)) /\ ~Contains(result.v, F)
        ELSE result = PyStr(Strip(reply))

(***************************************************************************)
(* Properties of the camera capture (checked under SpecCapture, and C17    *)
(* under SpecCaptureFair)                                                  *)
(***************************************************************************)
\* C16 as claimed: capture_from_camera returns a path exactly when SPACE was
\* read on a frame, and then that frame is in the image file; on ESC it
\* returns None and there is no image file.
C16_PathIffAccepted ==
    (pc = "obtained") =>
        /\ (image = "captured") = (cam.last = "space")
        /\ (image = "captured") => (cam.frame # 0 /\ cam.saved = cam.frame)
        /\ (image = "null") => (cam.last = "esc" /\ cam.saved = 0)

\* C17 as claimed: once ESC is pressed while capture_from_camera polls, the
\* call eventually returns None, whatever the frame reads return.
C17_CancelHonoured ==
    (pc \in Polling /\ cam.key = "esc") ~> (pc = "obtained" /\ image = "null")

\* C18 as claimed: in every entry point no frame is read from an opened camera
\* before the warm-up delay has elapsed.
C18_WarmUpBeforeFirstRead == (cam.reads > 0) => (cam.warm /\ ~cam.early)

(***************************************************************************)
(* Properties of whole runs of the vision solvers (checked under SpecMain) *)
(***************************************************************************)
NothingWritten == written = {} /\ files = files0 /\ handles = {}

\* C19: in file mode with a missing image file the run ends with the
\* not-found message; the provider is not called, no solution or info file is
\* written and the editor is not launched.
C19_MissingFileStopsRun ==
    (image = "missing") =>
        /\ pc \in {"check_path", "exit"}
        /\ (pc = "exit") => reported
        /\ calls = 0
        /\ NothingWritten
        /\ editor = "none"

\* C19 witness: a second run over an output directory that holds the files of
\* the first has ended on a missing image file.
C19_Witness ==
    /\ image = "missing"
    /\ pc = "exit"
    /\ reported
    /\ runs = 2
    /\ files0[SOLUTION_FILE].exists
    /\ files0[INFO_FILE].exists

\* C20: the provider is called at most once per run; when the call fails the
\* error leaves the processing step and reaches main(): no result, neither
\* file written, no editor launch.
C20_OneCallNoRetry ==
    /\ calls <= 1
    /\ (pc \in {"decode", "save", "sol_write", "info_open", "info_dump",
                "open_editor", "done"}) => (calls = 1 /\ error.kind # "ProviderError")
    /\ (error.kind = "ProviderError") =>
           /\ calls = 1
           /\ error.at = "process"
           /\ pc \in {"except", "exit"}
           /\ (pc = "exit") => reported
           /\ result = PyNone
           /\ NothingWritten
           /\ editor = "none"

\* C20 witness: in a second run the provider call failed and main() has
\* reported it, the files of the first run being there.
C20_Witness ==
    /\ error = [kind |-> "ProviderError", at |-> "process"]
    /\ pc = "exit"
    /\ calls = 1
    /\ runs = 2
    /\ files0[SOLUTION_FILE].exists
    /\ files0[INFO_FILE].exists
    /\ files0[SOLUTION_FILE].data # <<>>

(***************************************************************************)
(* Properties of main() of src/main.py (checked under SpecOcr)             *)
(***************************************************************************)
\* the loop has captured a frame in this run
FrameCaptured == solver = "ocr" /\ cam.count > 0

\* the run is over, and not because the user pressed Ctrl-C
CycleOver == pc \in Terminal /\ error.kind # "KeyboardInterrupt"

\* C21 as claimed: in src/main.py every captured frame goes through
\* process_frame and then parse_content; no captured frame ends its cycle
\* before parse_content has returned the parsed data.
C21_EveryFrameParsed ==
    (FrameCaptured /\ CycleOver) => (ptexts # <<>> /\ IsDict(pdata))

\* C22 as claimed: in src/main.py a failing step ends the cycle, not the loop:
\* with --continuous the loop is left only by Ctrl-C (or not entered, the
\* camera failing to connect); without it at most one frame is handled.
C22_FailureKeepsLoop ==
    /\ (solver = "ocr" /\ opts.continuous /\ pc \in Terminal) =>
           error.kind \in {"KeyboardInterrupt", "DeviceUnavailable"}
    /\ (solver = "ocr" /\ ~opts.continuous) => cam.count <= 1

(***************************************************************************)
(* Properties of the exit status and of the API key                        *)
(***************************************************************************)
\* C23 as claimed: a run that ended because of an error (no camera device, no
\* API key, a failure of the provider) has a non-zero exit status; a run the
\* user cancelled (ESC during the capture, Ctrl-C in the loop of src/main.py)
\* has exit status 0.
C23_ExitStatus ==
    /\ (pc \in Terminal /\ error.kind \in {"DeviceUnavailable", "ValueError", "ProviderError"})
           => ExitStatus # 0
    /\ (pc \in Terminal /\ (image = "null" \/ error.kind = "KeyboardInterrupt"))
           => ExitStatus = 0

\* C24 as claimed: the key of --api-key is the one used whenever the flag is
\* given; the environment variable is consulted only when the flag is absent;
\* with neither, construction fails and the run ends before any camera or
\* provider activity.
C24_KeySelection ==
    (pc # "start") =>
        /\ (opts.api_key # "absent") => key = "flag"
        /\ (key = "env") => opts.api_key = "absent"
        /\ (key = "none") =>
               /\ error.kind = "ValueError"
               /\ cam.state = "none"
               /\ calls = 0

(***************************************************************************)
(* Properties of the camera-selection utility (checked under SpecSelect)   *)
(***************************************************************************)
\* C25 as claimed: camera_config.txt is created or modified in a run only when
\* the answer parsed as an integer n, camera n opened and its preview
\* delivered at least one frame, and then it holds the one line CAMERA_ID=<n>;
\* in the other cases the file is as it was before the run.
C25_ConfigOnlyAfterFrame ==
    (files[CONFIG_FILE] # files0[CONFIG_FILE] \/ CONFIG_FILE \in written) =>
        /\ cam.id \in 0..MaxCamera
        /\ cam.state = "released"
        /\ cam.frame # 0
        /\ files[CONFIG_FILE] = [exists |-> TRUE, data |-> ConfigLine(cam.id)]

(***************************************************************************)
(* Properties of capture_frame (checked under SpecStream)                  *)
(***************************************************************************)
\* the calls before call k that read the device or the network
ReadsBefore(k) == {i \in 1..(k - 1) : stream.log[i].read}

\* last_capture_time when call k began
LastBefore(k) == IF k = 1 THEN 0 ELSE stream.log[k - 1].last

\* C26: any two calls of capture_frame that read the device or the network
\* are at least capture_interval apart, a failed read counting like a
\* successful one; a call made less than capture_interval after the last read
\* returns None, reads nothing and leaves last_capture_time as it was.
C26_RateLimit ==
    \A k \in 1..Len(stream.log) :
        /\ stream.log[k].read =>
               \A i \in ReadsBefore(k) :
                   stream.log[k].t - stream.log[i].t >= stream.capture_interval
        /\ \A i \in ReadsBefore(k) :
               (stream.log[k].t - stream.log[i].t < stream.capture_interval) =>
                   /\ stream.log[k].ret = "None"
                   /\ ~stream.log[k].read
                   /\ stream.log[k].last = LastBefore(k)

\* C26 witness: with an interval of two ticks, a read failed, the call one
\* tick later was turned away and the call two ticks later read a frame.
C26_Witness ==
    /\ stream.capture_interval = 2
    /\ Len(stream.log) = 3
    /\ stream.log[1].read /\ stream.log[1].ret = "None"
    /\ stream.log[2].t = stream.log[1].t + 1 /\ ~stream.log[2].read
    /\ stream.log[3].t = stream.log[1].t + 2 /\ stream.log[3].ret = "frame"

(***************************************************************************)
(* Further properties of detect_regions (checked under SpecRegions)        *)
(***************************************************************************)
\* C27: the three regions are contiguous and disjoint and cover the columns
\* 0..W of the frame exactly once: the first begins at column 0, each of the
\* next two begins where the one before ends, the last ends at column W, and
\* the widths add up to W; each region has the full height.
C27_RegionsPartition ==
    (pc = "regions") =>
        /\ Len(regions) = 3
        /\ regions[1].x0 = 0
        /\ regions[2].x0 = regions[1].x1
        /\ regions[3].x0 = regions[2].x1
        /\ regions[3].x1 = width
        /\ \A i \in 1..3 : regions[i].x0 <= regions[i].x1
        /\ Widths[1] + Widths[2] + Widths[3] = width
        /\ FullHeight

\* C27 witness: a frame 10 wide has been split at columns 3 and 7.
C27_Witness ==
    /\ pc = "regions"
    /\ width = 10
    /\ height = MaxHeight
    /\ regions[1].x1 = 3
    /\ regions[2].x1 = 7
    /\ Widths = <<3, 4, 3>>

\* C28 as claimed: from width 3 on every region is at least one column wide;
\* below, three (possibly empty) regions are returned.
C28_NonEmptyFromThree ==
    (pc = "regions") =>
        /\ Len(regions) = 3
        /\ (width >= 3) => \A i \in 1..3 : Widths[i] >= 1

\* C28 amended: every region is at least one column wide from width 4 on; at
\* width 3 the first region is empty (int(3 * 0.3) = 0: the widths are 0, 2
\* and 1), as it is at widths 0, 1 and 2; three regions are returned at every
\* width.
C28_NonEmptyFromFour ==
    (pc = "regions") =>
        /\ Len(regions) = 3
        /\ (width >= 4) => \A i \in 1..3 : Widths[i] >= 1
        /\ (width = 3) => Widths = <<0, 2, 1>>
        /\ (width <= 3) => Widths[1] = 0

\* C28 witness: a frame 3 wide has been split into 0, 2 and 1 columns.
C28_Witness ==
    /\ pc = "regions"
    /\ width = 3
    /\ Widths = <<0, 2, 1>>

(***************************************************************************)
(* Properties of capture_from_camera under interrupts (SpecCaptureInt)     *)
(***************************************************************************)
\* C29 as claimed: once capture_from_camera has opened the device, the device
\* is released and the windows are closed whichever way the call ends: with a
\* path, with a cancel, with an exception, or with Ctrl-C at any point after
\* the open.
C29_ReleasedOnEveryPath ==
    (solver \in Vision /\ pc \in {"obtained", "except", "crash"} /\ cam.state # "none")
        => cam.state = "released"

(***************************************************************************)
(* Properties of the branch of src/main.py after parsing (SpecOcr)         *)
(***************************************************************************)
\* problem_data has a function signature and a test case; a frame that was
\* never parsed has neither
Sufficient ==
    /\ IsDict(pdata)
    /\ SignaturesOf(pdata).v # <<>>
    /\ TestCasesOf(pdata).v # <<>>

\* C30 as claimed: for a captured frame, generate_solution is called only if
\* the generator was initialised and the data has a signature and a test
\* case; otherwise no solution file is written and the editor is not
\* launched; and when the cycle of the frame is over, extracted_<n>.txt has
\* been written exactly if the data was insufficient.
C30_GenerateOnlyIfSufficient ==
    FrameCaptured =>
        /\ (calls > 0) => (generator_initialized /\ Sufficient)
        /\ ~(generator_initialized /\ Sufficient) =>
               (OCR_SOLUTION_FILE \notin written /\ editor = "none")
        /\ CycleOver => ((EXTRACTED_FILE \in written) <=> ~Sufficient)

=============================================================================
